---- MODULE Spec2Model ----
(***************************************************************************)
(* Numerical kernels of the benchmark harness: dense matrix multiply       *)
(* (naive / blocked / transposed-B), the Fourier transforms (naive DFT,    *)
(* recursive Cooley-Tukey, iterative radix-2) and the N-body Euler step,   *)
(* each in its C++ (SWIG) and its Cython variant.                          *)
(*                                                                         *)
(* Matrix entries are integers, so every sum is exact.  Indices are the    *)
(* 0-based indices of the source.                                          *)
(***************************************************************************)
EXTENDS Integers, Sequences, FiniteSets, TLC

(***************************************************************************)
(* Bounds of the model.                                                    *)
(***************************************************************************)
MaxN == 3            \* matrices have 0..MaxN rows and 0..MaxN columns
MaxSeed == 2         \* inputs are Gen(s, r, c) for s in 0..MaxSeed
MaxBS == 4           \* largest block_size passed to matmul_blocked
MaxLen == 8          \* the transforms take sequences of length 0..MaxLen
MaxVal == 1          \* with entries 0..MaxVal
MaxBodies == 2       \* the N-body step takes 0..MaxBodies bodies
MaxPos == 1          \* with coordinates 0..MaxPos
MaxMass == 2         \* and masses 1..MaxMass
MaxDt == 2           \* dt is 1..MaxDt
MaxG == 1            \* G is 1..MaxG
MaxSoft == 1         \* softening is 1..MaxSoft
FixedOne == 8        \* 1.0 in the fixed-point grid of the reciprocal 1.0 / x
MaxGenN == 2         \* initialize_bodies makes 0..MaxGenN bodies
MaxBox == 2          \* box_size is 1..MaxBox
RandMax == 2         \* rand() returns 0..RandMax
MaxRows == 2         \* the row counts of the Cython kernels' buffers are 1..MaxRows
MaxVertex == 2       \* vertex ids are 0..MaxVertex
MaxDeg == 2          \* an adjacency list has at most MaxDeg entries
MaxItems == 4        \* the vector to sort has 0..MaxItems elements
MaxItem == 2         \* its elements are 0..MaxItem
MaxPoints == 2       \* kmeans_iteration takes 0..MaxPoints points
MaxCentroids == 2    \* and 0..MaxCentroids centroids
MaxDim == 2          \* of 1..MaxDim coordinates each
MaxCoord == 2        \* every coordinate being 0..MaxCoord
MaxV == 9            \* create_sparse_graph is asked for -1..MaxV vertices
MaxE == 3            \* and -1..MaxE edges
MaxDataLen == 3      \* convolution_1d takes 0..MaxDataLen samples
MaxKernelLen == 3    \* and a kernel of 0..MaxKernelLen taps
MaxSide == 2         \* convolution_2d takes an image of 0..MaxSide rows and columns
MaxKSize == 2        \* and a square kernel of side 0..MaxKSize
MaxSample == 1       \* samples, pixels and kernel entries are 0..MaxSample
MaxText == 4         \* a text to tokenize has 0..MaxText characters
DistScale == 16      \* a distance is kept in steps of 1 / DistScale
IntBits == 7         \* the width of the sieve's int, sign bit included; limit is -1..IntMax

VARIABLES
    A, B,            \* the operands of the matrix multiply call
    block_size,      \* the block_size argument of matmul_blocked
    pc,              \* position of matmul_blocked: idle, ii, jj, kk, done, crashed
    C,               \* matmul_blocked's result matrix, under construction
    ii, jj, kk,      \* the tile loop counters of matmul_blocked
    klog,            \* klog[i][j]: the k indices added into C[i][j] so far, in order
    oob,             \* an element outside A or B has been read by matmul_blocked
    junk,            \* what the memory outside the operands holds during the call
    rNaive, rTrans,  \* what matmul_naive / matmul_transpose return for (A, B)
    rNaiveCy, rBlockedCy, rTransCy,  \* what the three Cython variants return
    x,               \* the input sequence of the transforms, x[0..N-1]
    impl,            \* which fft_iterative runs: "cpp" (fft_iterative) or "cy" (fft_iterative_cy)
    fpc,             \* position of fft_iterative: idle, perm, while, stage, block, bfly, done
    X,               \* fft_iterative's buffer
    fi, fj, fk,      \* i, j, k of the bit-reversal loop
    size, bi, bj, w, \* stage size, block start i, butterfly j and twiddle w
    rDft, rCT, rCTcy,\* what dft_naive, fft_cooley_tukey, fft_cooley_tukey_cy return for x
    rIt,             \* what fft_iterative returns
    xobj,            \* the contents of the caller's input array, now
    same,            \* the transforms whose returned array is the caller's input array itself
    bodies,          \* the caller's body sequence, the argument of the N-body step
    pre,             \* the value of the caller's sequence when the step was called
    dt, G, softening,\* the other arguments of the step
    nimpl,           \* "cpp" (nbody_step_update) or "cy" (nbody_step_update_cy)
    npc,             \* position of the step: idle, accel, update, copyback, done
    work,            \* updated_bodies (C++) or body_array (Cython)
    ax, ay,          \* the acceleration arrays
    ni,              \* the loop index i
    ret,             \* the returned sequence
    retIsInput       \* the returned sequence is the caller's own list object

mvars == <<A, B, block_size, pc, C, ii, jj, kk, klog, oob, junk,
           rNaive, rTrans, rNaiveCy, rBlockedCy, rTransCy>>

fvars == <<x, impl, fpc, X, fi, fj, fk, size, bi, bj, w, rDft, rCT, rCTcy, rIt,
           xobj, same>>

nvars == <<bodies, pre, dt, G, softening, nimpl, npc, work, ax, ay, ni,
           ret, retIsInput>>

VARIABLES
    gN, box_size, max_mass,  \* the arguments of initialize_bodies
    seeded,          \* the static flag of initialize_bodies
    gpc,             \* position of initialize_bodies: idle, loop, done
    gi,              \* its loop index i
    made             \* its vector of bodies, under construction and as returned

gvars == <<gN, box_size, max_mass, seeded, gpc, gi, made>>

VARIABLES
    akern,           \* the Cython kernel whose buffers are followed
    d1, d2,          \* rows and k_size (convolution_2d_cy), N and K (kmeans_iteration_cy)
    wild,            \* a row-pointer slot that was never written reads as non-NULL
    apc,             \* position: idle, top, check, rows, finally, raised, returned, crashed
    at, aslot,       \* the buffer and the row slot the kernel is at
    top,             \* the top-level pointers: 0 is NULL, an allocation is its number
    slots,           \* the row-pointer arrays: Unset, 0 (NULL) or an allocation
    nextId,          \* the number of the next allocation
    live,            \* the allocations not freed yet
    freed,           \* the allocations freed
    twice,           \* free was applied to an allocation already freed
    badFree,         \* free was applied to a slot never assigned
    failed,          \* a malloc of the call returned NULL
    aexc             \* the exception in flight or raised: none, MemoryError

avars == <<akern, d1, d2, wild, apc, at, aslot, top, slots, nextId, live, freed,
           twice, badFree, failed, aexc>>

VARIABLES
    graph,           \* the adjacency list: vertex id -> sequence of neighbour ids
    start_node,      \* the start_node argument of the search
    bimpl,           \* "cpp" (breadth_first_search), "cy" (breadth_first_search_cy),
                     \* "matrix" (breadth_first_search_matrix_cy, graph[u] being the
                     \* columns v, ascending, with adj_matrix[u, v] == 1)
    bpc,             \* position of the search: idle, loop, done, crashed
    queue,           \* the queue, front first
    qtail,           \* queue_tail: the number of entries written to the queue so far
    visited,         \* the visited set or the cells of visited_array holding 1
    path,            \* the path map under construction and as returned
    visited_count,   \* the count under construction and as returned
    bjunk,           \* what a cell outside visited_array reads before it is written
    bcrash,          \* an access outside the arrays ends the process
    boob             \* an element outside visited_array or queue has been accessed

bvars == <<graph, start_node, bimpl, bpc, queue, qtail, visited, path,
           visited_count, bjunk, bcrash, boob>>

VARIABLES
    arr,             \* the caller's vector, the argument of the sort
    arr0,            \* the value of the caller's vector when the sort was called
    qimpl,           \* "quicksort", "quicksort_inplace" or "quicksort_cy"
    qpc,             \* position of the sort: idle, sort, done
    items,           \* the vector being sorted: arr_copy, arr itself, the C array
    stack,           \* the calls of quicksort_recursive not made yet, next first
    plast,           \* the last call of partition: low, high, pi, items before and after, indices used
    pcalls,          \* the number of calls of partition so far
    qret             \* the returned vector

qvars == <<arr, arr0, qimpl, qpc, items, stack, plast, pcalls, qret>>

VARIABLES
    limit,           \* the limit argument of sieve_of_eratosthenes
    simpl,           \* "cpp" (sieve_swig.cpp) or "cy" (regex_cy.pyx)
    spc,             \* position of the sieve: idle, outer, mark, collect, done, raised, crashed
    is_prime,        \* the buffer of limit + 1 flags
    sp,              \* p, the candidate of the outer loop
    si,              \* i of the marking loop (multiple in regex_cy.pyx), then i of the collecting loop
    sfirst,          \* the first index of the marking loop under way
    primes,          \* the list under construction and as returned
    sjunk,           \* what a flag outside the buffer reads
    scrash,          \* an access outside the buffer ends the process
    soob,            \* an element outside the buffer has been accessed
    sovf             \* an int expression has left the range of int

svars == <<limit, simpl, spc, is_prime, sp, si, sfirst, primes, sjunk, scrash,
           soob, sovf>>

VARIABLES
    data,            \* the data argument of kmeans_iteration: point index -> point
    centroids,       \* the centroids argument: cluster index -> point
    kimpl,           \* "cpp" (kmeans_iteration) or "cy" (kmeans_iteration_cy)
    kpc,             \* position of the iteration: idle, assign, update, done
    ki,              \* i of the assignment loop, then k of the update loop
    assignments,     \* point index -> the cluster the point went to
    cluster_counts,  \* cluster index -> number of points assigned so far
    cluster_sums,    \* cluster index -> coordinate-wise sum of the points assigned so far
    new_centroids    \* the list under construction and as returned

kvars == <<data, centroids, kimpl, kpc, ki, assignments, cluster_counts,
           cluster_sums, new_centroids>>

VARIABLES
    cV,              \* the V argument of create_sparse_graph
    cE0,             \* the E argument as passed
    cE,              \* E, which the function lowers to max_edges
    directed,        \* the directed argument
    cimpl,           \* "cpp" (create_sparse_graph) or "cy" (create_sparse_graph_cy)
    cpc,             \* position of the call: idle, draw, done
    max_edges,       \* V * (V - 1) / 2 as computed
    edges,           \* the set of canonical pairs drawn so far
    adj              \* the returned graph: vertex -> neighbour -> number of
                     \* occurrences in the vertex's list

evars == <<cV, cE0, cE, directed, cimpl, cpc, max_edges, edges, adj>>

VARIABLES
    vin,             \* the data (image) argument of the convolution
    vker,            \* the kernel argument
    vimpl,           \* convolution_1d, convolution_1d_cy, convolution_2d, convolution_2d_cy
    vpc,             \* position of the call: idle, conv, done, crashed
    padded,          \* padded_data (padded_image)
    vr, vc,          \* i (r and c) of the convolution loops
    vout,            \* output, under construction and as returned
    voob             \* an element outside padded has been read

vvars == <<vin, vker, vimpl, vpc, padded, vr, vc, vout, voob>>

VARIABLES
    text,            \* the text argument of char_tokenize, a sequence of character codes
    tpc,             \* position of char_tokenize: idle, loop, done
    tci,              \* i of the loop
    tstart,          \* start
    in_word, in_punct, in_space,   \* the class of the token under way
    tokens,          \* the list under construction and as returned
    flags            \* ghost: the values the three flags took together so far

tvars == <<text, tpc, tci, tstart, in_word, in_punct, in_space, tokens, flags>>

VARIABLES
    wtext,           \* the text handed to the word tokenizers
    wret             \* function name -> the list it returned, NoTokens before its call

wvars == <<wtext, wret>>

\* the variables of the kernels that follow the first three
ovars == <<gvars, avars, bvars, qvars, svars, kvars, evars, vvars, tvars, wvars>>

vars == <<mvars, fvars, nvars, ovars>>

nonM == <<fvars, nvars, ovars>>
nonF == <<mvars, nvars, ovars>>
nonN == <<mvars, fvars, ovars>>
nonG == <<mvars, fvars, nvars, avars, bvars, qvars, svars, kvars, evars, vvars, tvars, wvars>>
nonA == <<mvars, fvars, nvars, gvars, bvars, qvars, svars, kvars, evars, vvars, tvars, wvars>>
nonB == <<mvars, fvars, nvars, gvars, avars, qvars, svars, kvars, evars, vvars, tvars, wvars>>
nonQ == <<mvars, fvars, nvars, gvars, avars, bvars, svars, kvars, evars, vvars, tvars, wvars>>
nonS == <<mvars, fvars, nvars, gvars, avars, bvars, qvars, kvars, evars, vvars, tvars, wvars>>
nonK == <<mvars, fvars, nvars, gvars, avars, bvars, qvars, svars, evars, vvars, tvars, wvars>>
nonE == <<mvars, fvars, nvars, gvars, avars, bvars, qvars, svars, kvars, vvars, tvars, wvars>>
nonV == <<mvars, fvars, nvars, gvars, avars, bvars, qvars, svars, kvars, evars, tvars, wvars>>
nonT == <<mvars, fvars, nvars, gvars, avars, bvars, qvars, svars, kvars, evars, vvars, wvars>>
nonW == <<mvars, fvars, nvars, gvars, avars, bvars, qvars, svars, kvars, evars, vvars, tvars>>

(***************************************************************************)
(* Matrices: a Matrix2D is a function from row index to row, a row a       *)
(* function from column index to entry.                                    *)
(***************************************************************************)
Min(a, b) == IF a < b THEN a ELSE b

Size(M) == Cardinality(DOMAIN M)

Cols(M) == IF DOMAIN M = {} THEN 0 ELSE Cardinality(DOMAIN M[0])

Zeros(n) == [i \in 0..(n - 1) |-> [j \in 0..(n - 1) |-> 0]]

NoLog(n) == [i \in 0..(n - 1) |-> [j \in 0..(n - 1) |-> <<>>]]

EmptyMatrix == [i \in {} |-> 0]

Entry(s, i, j) == (((s + 1) * (2 * i + 1) + (s + 3) * j + i * j) % 5) - 2

Gen(s, r, c) == [i \in 0..(r - 1) |-> [j \in 0..(c - 1) |-> Entry(s, i, j)]]

Garbage == {0, 7}    \* what a read outside a vector may yield

InA(i, k) == i \in DOMAIN A /\ k \in DOMAIN A[i]
InB(k, j) == k \in DOMAIN B /\ j \in DOMAIN B[k]

RdA(i, k, g) == IF InA(i, k) THEN A[i][k] ELSE g
RdB(k, j, g) == IF InB(k, j) THEN B[k][j] ELSE g

Ok(m, o) == [st |-> "ok", val |-> m, ord |-> o]
Crashed == [st |-> "crashed", val |-> EmptyMatrix, ord |-> EmptyMatrix]
ValueError == [st |-> "ValueError", val |-> EmptyMatrix, ord |-> EmptyMatrix]
NotCalled == [st |-> "none", val |-> EmptyMatrix, ord |-> EmptyMatrix]

(***************************************************************************)
(* The inner k loop: sum += A[i][k] * B[k][j] for k = lo, lo+1, .., hi-1,  *)
(* starting from acc.  The result carries the sum and the k indices in the *)
(* order in which their products were added.                               *)
(***************************************************************************)
\* the slip B[j][k] for B[k][j]
RECURSIVE InnerK_SwappedB(_, _, _, _, _, _)
InnerK_SwappedB(i, j, k, hi, acc, g) ==
    IF k < hi
    THEN InnerK_SwappedB(i, j, k + 1, hi,
                         [sum |-> acc.sum + RdA(i, k, g) * RdB(j, k, g),
                          ks |-> Append(acc.ks, k)], g)
    ELSE acc

RECURSIVE InnerK(_, _, _, _, _, _)
InnerK(i, j, k, hi, acc, g) ==
    IF k < hi
    THEN InnerK(i, j, k + 1, hi,
                [sum |-> acc.sum + RdA(i, k, g) * RdB(k, j, g),
                 ks |-> Append(acc.ks, k)], g)
    ELSE acc

Fresh == [sum |-> 0, ks |-> <<>>]      \* double sum = 0.0, nothing added yet

\* a matrix of [sum, ks] cells as a result value
Result(cells, n) ==
    Ok([i \in 0..(n - 1) |-> [j \in 0..(n - 1) |-> cells[i][j].sum]],
       [i \in 0..(n - 1) |-> [j \in 0..(n - 1) |-> cells[i][j].ks]])

\* the three loops over 0..n-1 read an element outside A or B
NaiveOob(n) == \E i, j, k \in 0..(n - 1) : ~InA(i, k) \/ ~InB(k, j)

NaiveResult(n, g) ==
    Result([i \in 0..(n - 1) |-> [j \in 0..(n - 1) |->
                InnerK(i, j, 0, n, Fresh, g)]], n)

\* matmul_naive(A, B).  A read outside a vector is undefined behaviour: it
\* ends the process (crash) or yields the garbage g.
matmul_naive(crash, g) ==
    IF Size(A) = 0 \/ Size(B) = 0
    THEN Ok(EmptyMatrix, EmptyMatrix)
    ELSE IF NaiveOob(Size(A)) /\ crash
         THEN Crashed
         ELSE NaiveResult(Size(A), g)

matmul_naive_cy(crash, g) ==
    IF NaiveOob(Size(A)) /\ crash
    THEN Crashed
    ELSE NaiveResult(Size(A), g)

(***************************************************************************)
(* matmul_transpose: B_T[j][i] = B[i][j], then sum += A[i][k] * B_T[j][k]. *)
(***************************************************************************)
B_T(n, g) == [j \in 0..(n - 1) |-> [i \in 0..(n - 1) |-> RdB(i, j, g)]]

RECURSIVE TransK(_, _, _, _, _, _, _)
TransK(bt, i, j, k, hi, acc, g) ==
    IF k < hi
    THEN TransK(bt, i, j, k + 1, hi,
                [sum |-> acc.sum + RdA(i, k, g) * bt[j][k],
                 ks |-> Append(acc.ks, k)], g)
    ELSE acc

TransResult(n, g) ==
    LET bt == B_T(n, g)
    IN  Result([i \in 0..(n - 1) |-> [j \in 0..(n - 1) |->
                    TransK(bt, i, j, 0, n, Fresh, g)]], n)

matmul_transpose(crash, g) ==
    IF Size(A) = 0 \/ Size(B) = 0
    THEN Ok(EmptyMatrix, EmptyMatrix)
    ELSE IF NaiveOob(Size(A)) /\ crash
         THEN Crashed
         ELSE TransResult(Size(A), g)

matmul_transpose_cy(crash, g) ==
    IF NaiveOob(Size(A)) /\ crash
    THEN Crashed
    ELSE TransResult(Size(A), g)

(***************************************************************************)
(* matmul_blocked.  ProcessBlock is the body of the kk loop: the tile      *)
(* bounds are clipped at n, and every cell of the tile continues from the  *)
(* value C[i][j] already holds.                                            *)
(***************************************************************************)
InTile(lo, bs, n, v) == lo <= v /\ v < Min(lo + bs, n)

TileOob(ti, tj, tk, bs, n) ==
    \E i, j, k \in 0..(n - 1) :
        /\ InTile(ti, bs, n, i) /\ InTile(tj, bs, n, j) /\ InTile(tk, bs, n, k)
        /\ (~InA(i, k) \/ ~InB(k, j))

\* the slip double sum = 0.0 for double sum = C[i][j]
ProcessBlock_Reset(cells, ti, tj, tk, bs, n, g) ==
    LET i_max == Min(ti + bs, n)
        j_max == Min(tj + bs, n)
        k_max == Min(tk + bs, n)
    IN  [i \in 0..(n - 1) |-> [j \in 0..(n - 1) |->
            IF ti <= i /\ i < i_max /\ tj <= j /\ j < j_max
            THEN InnerK(i, j, tk, k_max, [sum |-> 0, ks |-> cells[i][j].ks], g)
            ELSE cells[i][j]]]

\* the slip of a tile that is not clipped in k: k_max = kk + block_size
ProcessBlock_NoClip(cells, ti, tj, tk, bs, n, g) ==
    LET i_max == Min(ti + bs, n)
        j_max == Min(tj + bs, n)
        k_max == tk + bs
    IN  [i \in 0..(n - 1) |-> [j \in 0..(n - 1) |->
            IF ti <= i /\ i < i_max /\ tj <= j /\ j < j_max
            THEN InnerK(i, j, tk, k_max, cells[i][j], g)
            ELSE cells[i][j]]]

ProcessBlock(cells, ti, tj, tk, bs, n, g) ==
    LET i_max == Min(ti + bs, n)
        j_max == Min(tj + bs, n)
        k_max == Min(tk + bs, n)
    IN  [i \in 0..(n - 1) |-> [j \in 0..(n - 1) |->
            IF ti <= i /\ i < i_max /\ tj <= j /\ j < j_max
            THEN InnerK(i, j, tk, k_max, cells[i][j], g)
            ELSE cells[i][j]]]

\* matmul_blocked_cy: the three range(0, n, block_size) loops, for a
\* positive step.
RECURSIVE CyTiles(_, _, _, _, _, _, _)
CyTiles(cells, ti, tj, tk, bs, n, g) ==
    IF ti >= n THEN cells
    ELSE IF tj >= n THEN CyTiles(cells, ti + bs, 0, 0, bs, n, g)
    ELSE IF tk >= n THEN CyTiles(cells, ti, tj + bs, 0, bs, n, g)
    ELSE CyTiles(ProcessBlock(cells, ti, tj, tk, bs, n, g),
                 ti, tj, tk + bs, bs, n, g)

FreshCells(n) == [i \in 0..(n - 1) |-> [j \in 0..(n - 1) |-> Fresh]]

\* range() with a step whose sign is unknown at compile time is Python's
\* range: a zero step raises ValueError, a negative step is an empty range.
matmul_blocked_cy(bs, crash, g) ==
    LET n == Size(A)
    IN  IF bs = 0 THEN ValueError
        ELSE IF bs < 0 THEN Result(FreshCells(n), n)
        ELSE IF NaiveOob(n) /\ crash THEN Crashed
        ELSE Result(CyTiles(FreshCells(n), 0, 0, 0, bs, n, g), n)

(***************************************************************************)
(* The kernels are independent: while one is exercised the variables of    *)
(* the others rest at these values.                                        *)
(***************************************************************************)
FNotCalled == [st |-> "none", val |-> <<>>]

MIdle ==
    /\ A = EmptyMatrix /\ B = EmptyMatrix
    /\ block_size = 0 /\ pc = "off"
    /\ C = EmptyMatrix /\ klog = EmptyMatrix
    /\ ii = 0 /\ jj = 0 /\ kk = 0
    /\ oob = FALSE /\ junk = 0
    /\ rNaive = NotCalled /\ rTrans = NotCalled
    /\ rNaiveCy = NotCalled /\ rBlockedCy = NotCalled /\ rTransCy = NotCalled

FIdle ==
    /\ x = <<>> /\ impl = "cpp" /\ fpc = "off"
    /\ X = <<>>
    /\ fi = 0 /\ fj = 0 /\ fk = 0
    /\ size = 0 /\ bi = 0 /\ bj = 0 /\ w = 0
    /\ rDft = FNotCalled /\ rCT = FNotCalled /\ rCTcy = FNotCalled
    /\ rIt = FNotCalled
    /\ xobj = <<>> /\ same = {}

NIdle ==
    /\ bodies = <<>> /\ pre = <<>>
    /\ dt = 0 /\ G = 0 /\ softening = 0
    /\ nimpl = "cpp" /\ npc = "off"
    /\ work = <<>> /\ ax = <<>> /\ ay = <<>>
    /\ ni = 0
    /\ ret = <<>> /\ retIsInput = FALSE

GIdle ==
    /\ gN = 0 /\ box_size = 0 /\ max_mass = 0
    /\ seeded = FALSE /\ gpc = "off"
    /\ gi = 0 /\ made = <<>>

AIdle ==
    /\ akern = "none" /\ d1 = 0 /\ d2 = 0 /\ wild = FALSE
    /\ apc = "off" /\ at = 0 /\ aslot = 0
    /\ top = <<>> /\ slots = <<>>
    /\ nextId = 0 /\ live = {} /\ freed = {}
    /\ twice = FALSE /\ badFree = FALSE /\ failed = FALSE
    /\ aexc = "none"

BIdle ==
    /\ graph = <<>> /\ start_node = 0 /\ bimpl = "cpp" /\ bpc = "off"
    /\ queue = <<>> /\ qtail = 0
    /\ visited = {} /\ path = <<>> /\ visited_count = 0
    /\ bjunk = 0 /\ bcrash = FALSE /\ boob = FALSE

NoPartition == [low |-> 0, high |-> -1, pi |-> 0, before |-> <<>>,
                after |-> <<>>, used |-> {}]

QIdle ==
    /\ arr = <<>> /\ arr0 = <<>> /\ qimpl = "quicksort" /\ qpc = "off"
    /\ items = <<>> /\ stack = <<>>
    /\ plast = NoPartition /\ pcalls = 0
    /\ qret = <<>>

SIdle ==
    /\ limit = 0 /\ simpl = "cpp" /\ spc = "off"
    /\ is_prime = <<>> /\ sp = 0 /\ si = 0 /\ sfirst = 0 /\ primes = <<>>
    /\ sjunk = FALSE /\ scrash = FALSE /\ soob = FALSE /\ sovf = FALSE

KIdle ==
    /\ data = <<>> /\ centroids = <<>> /\ kimpl = "cpp" /\ kpc = "off"
    /\ ki = 0 /\ assignments = <<>> /\ cluster_counts = <<>>
    /\ cluster_sums = <<>> /\ new_centroids = <<>>

EIdle ==
    /\ cV = 0 /\ cE0 = 0 /\ cE = 0 /\ directed = FALSE /\ cimpl = "cpp"
    /\ cpc = "off" /\ max_edges = 0 /\ edges = {} /\ adj = <<>>

VIdle ==
    /\ vin = <<>> /\ vker = <<>> /\ vimpl = "convolution_1d" /\ vpc = "off"
    /\ padded = <<>> /\ vr = 0 /\ vc = 0 /\ vout = <<>> /\ voob = FALSE

TIdle ==
    /\ text = <<>> /\ tpc = "off" /\ tci = 0 /\ tstart = 0
    /\ in_word = FALSE /\ in_punct = FALSE /\ in_space = FALSE
    /\ tokens = <<>> /\ flags = {}

WIdle == wtext = <<>> /\ wret = <<>>

OIdle == GIdle /\ AIdle /\ BIdle /\ QIdle /\ SIdle /\ KIdle /\ EIdle /\ VIdle /\ TIdle /\ WIdle

(***************************************************************************)
(* The call: operands and block_size are the caller's choice.              *)
(***************************************************************************)
Dims == 0..MaxN
Seeds == 0..MaxSeed
BlockSizes == 0..MaxBS

InitMatmul ==
    /\ \E ra, ca, rb, cb \in Dims : \E sa, sb \in Seeds :
          /\ A = Gen(sa, ra, ca)
          /\ B = Gen(sb, rb, cb)
    /\ block_size = 0
    /\ pc = "idle"
    /\ C = EmptyMatrix
    /\ klog = EmptyMatrix
    /\ ii = 0 /\ jj = 0 /\ kk = 0
    /\ oob = FALSE
    /\ junk = 0
    /\ rNaive = NotCalled /\ rTrans = NotCalled
    /\ rNaiveCy = NotCalled /\ rBlockedCy = NotCalled /\ rTransCy = NotCalled
    /\ FIdle
    /\ NIdle
    /\ OIdle

\* Lines 27-32 of matmul_blocked, together with the calls of the other
\* five functions on the same operands.
Call(bs) ==
    /\ pc = "idle"
    /\ block_size' = bs
    /\ \E crash \in BOOLEAN, g \in Garbage :
          /\ junk' = g
          /\ rNaive' = matmul_naive(crash, g)
          /\ rTrans' = matmul_transpose(crash, g)
          /\ rNaiveCy' = matmul_naive_cy(crash, g)
          /\ rBlockedCy' = matmul_blocked_cy(bs, crash, g)
          /\ rTransCy' = matmul_transpose_cy(crash, g)
    /\ IF Size(A) = 0 \/ Size(B) = 0
       THEN /\ pc' = "done"
            /\ UNCHANGED <<C, klog>>
       ELSE /\ pc' = "ii"
            /\ C' = Zeros(Size(A))
            /\ klog' = NoLog(Size(A))
    /\ ii' = 0
    /\ UNCHANGED <<A, B, jj, kk, oob>>
    /\ UNCHANGED nonM

\* for (int ii = 0; ii < n; ii += block_size)
LoopII ==
    /\ pc = "ii"
    /\ IF ii < Size(A)
       THEN jj' = 0 /\ pc' = "jj"
       ELSE pc' = "done" /\ UNCHANGED jj
    /\ UNCHANGED <<A, B, junk, block_size, C, ii, kk, klog, oob,
                   rNaive, rTrans, rNaiveCy, rBlockedCy, rTransCy>>
    /\ UNCHANGED nonM

\* for (int jj = 0; jj < n; jj += block_size)
LoopJJ ==
    /\ pc = "jj"
    /\ IF jj < Size(A)
       THEN kk' = 0 /\ pc' = "kk" /\ UNCHANGED ii
       ELSE ii' = ii + block_size /\ pc' = "ii" /\ UNCHANGED kk
    /\ UNCHANGED <<A, B, junk, block_size, C, jj, klog, oob,
                   rNaive, rTrans, rNaiveCy, rBlockedCy, rTransCy>>
    /\ UNCHANGED nonM

\* for (int kk = 0; kk < n; kk += block_size) { process the block }
Tile ==
    /\ pc = "kk"
    /\ kk < Size(A)
    /\ LET n == Size(A)
           r == ProcessBlock([i \in 0..(n - 1) |-> [j \in 0..(n - 1) |->
                                 [sum |-> C[i][j], ks |-> klog[i][j]]]],
                              ii, jj, kk, block_size, n, junk)
       IN  /\ C' = [i \in 0..(n - 1) |-> [j \in 0..(n - 1) |-> r[i][j].sum]]
           /\ klog' = [i \in 0..(n - 1) |-> [j \in 0..(n - 1) |-> r[i][j].ks]]
    /\ oob' = (oob \/ TileOob(ii, jj, kk, block_size, Size(A)))
    /\ kk' = kk + block_size
    /\ UNCHANGED <<A, B, junk, block_size, pc, ii, jj,
                   rNaive, rTrans, rNaiveCy, rBlockedCy, rTransCy>>
    /\ UNCHANGED nonM

\* a read outside a vector may end the process instead of yielding garbage
TileCrash ==
    /\ pc = "kk"
    /\ kk < Size(A)
    /\ TileOob(ii, jj, kk, block_size, Size(A))
    /\ pc' = "crashed"
    /\ oob' = TRUE
    /\ UNCHANGED <<A, B, junk, block_size, C, ii, jj, kk, klog,
                   rNaive, rTrans, rNaiveCy, rBlockedCy, rTransCy>>
    /\ UNCHANGED nonM

ExitKK ==
    /\ pc = "kk"
    /\ ~(kk < Size(A))
    /\ jj' = jj + block_size
    /\ pc' = "jj"
    /\ UNCHANGED <<A, B, junk, block_size, C, ii, kk, klog, oob,
                   rNaive, rTrans, rNaiveCy, rBlockedCy, rTransCy>>
    /\ UNCHANGED nonM

NextMatmul ==
    \/ \E bs \in BlockSizes : Call(bs)
    \/ LoopII
    \/ LoopJJ
    \/ Tile
    \/ TileCrash
    \/ ExitKK

SpecMatmul == InitMatmul /\ [][NextMatmul]_vars

\* matmul_blocked is sequential code: a step that can be taken is taken
FairSpecMatmul == SpecMatmul /\ WF_vars(NextMatmul)

(***************************************************************************)
(* Properties of the matrix multiplier.                                    *)
(***************************************************************************)
\* A and B are both N x N for the same N
IsSquare ==
    /\ Size(A) = Size(B)
    /\ Cols(A) = Size(A)
    /\ Cols(B) = Size(B)

\* sum over k in [0, n) of A[i][k] * B[k][j]
RECURSIVE Sigma(_, _, _)
Sigma(i, j, n) ==
    IF n = 0 THEN 0 ELSE Sigma(i, j, n - 1) + A[i][n - 1] * B[n - 1][j]

Product ==
    [i \in 0..(Size(A) - 1) |-> [j \in 0..(Size(A) - 1) |-> Sigma(i, j, Size(A))]]

Returned == pc = "done"

\* 0, 1, .., n-1 in increasing order
UpTo(n) == [m \in 1..n |-> m - 1]

\* C1: for N x N operands and block_size >= 1 the three C++ strategies
\* return the same N x N matrix, and so do the three Cython variants.
C1_StrategiesAgree ==
    (Returned /\ IsSquare /\ block_size >= 1) =>
        /\ rNaive.st = "ok" /\ rTrans.st = "ok"
        /\ rNaive.val = C /\ rTrans.val = C
        /\ DOMAIN C = 0..(Size(A) - 1)
        /\ \A i \in DOMAIN C : DOMAIN C[i] = 0..(Size(A) - 1)
        /\ rNaiveCy.st = "ok" /\ rBlockedCy.st = "ok" /\ rTransCy.st = "ok"
        /\ rNaiveCy.val = rBlockedCy.val /\ rTransCy.val = rBlockedCy.val
        /\ rBlockedCy.val = C

C1_Witness ==
    /\ Returned /\ IsSquare /\ Size(A) = 3 /\ block_size = 2
    /\ rNaive.val = C /\ rTrans.val = C /\ rBlockedCy.val = C
    /\ \E i, j \in DOMAIN C : C[i][j] # 0

\* C6: matmul_naive returns C with C[i][j] = sum over k of A[i][k]*B[k][j];
\* for N = 0 the result is the empty matrix and no error.
C6_NaiveIsProduct ==
    (pc # "idle" /\ IsSquare) =>
        /\ rNaive.st = "ok" /\ rNaive.val = Product
        /\ rNaiveCy.st = "ok" /\ rNaiveCy.val = Product
        /\ Size(A) = 0 => rNaive.val = EmptyMatrix

C6_Witness ==
    /\ pc # "idle" /\ IsSquare /\ Size(A) = 3
    /\ rNaive.val = Product
    /\ \E i, j \in DOMAIN Product : Product[i][j] # 0
    /\ \E i, j \in DOMAIN Product : Product[i][j] # Product[j][i]

\* C7: in matmul_blocked the k indices added into C[i][j] are 0, 1, .., in
\* increasing order, each once and none >= N, starting from 0.0; when the
\* call returns they are 0..N-1, the order of matmul_naive and
\* matmul_transpose.
C7_BlockedOrder ==
    (pc \in {"ii", "jj", "kk", "done"} /\ IsSquare /\ Size(A) >= 1
        /\ block_size >= 1) =>
        \A i, j \in 0..(Size(A) - 1) :
            /\ Len(klog[i][j]) <= Size(A)
            /\ klog[i][j] = UpTo(Len(klog[i][j]))
            /\ C[i][j] = Sigma(i, j, Len(klog[i][j]))
            /\ Returned => /\ klog[i][j] = UpTo(Size(A))
                           /\ rNaive.ord[i][j] = klog[i][j]
                           /\ rTrans.ord[i][j] = klog[i][j]

C7_Witness ==
    /\ Returned /\ IsSquare /\ Size(A) = 3 /\ block_size = 2
    /\ klog[2][2] = <<0, 1, 2>>
    /\ klog[0][1] = rNaive.ord[0][1]

\* C8: every call of matmul_blocked on N x N operands terminates: it is
\* rejected at the boundary or returns a value.
C8_BlockedTerminates ==
    IsSquare => <>(pc = "done" \/ pc = "rejected")

\* C9: a call with operands that are not both N x N signals an explicit
\* error: it reads nothing outside A or B and returns no result matrix.
C9_MismatchIsError ==
    (pc # "idle" /\ ~IsSquare) =>
        /\ rNaive.st = "error" /\ rTrans.st = "error"
        /\ rNaiveCy.st = "error" /\ rTransCy.st = "error"
        /\ rBlockedCy.st = "error"
        /\ pc = "error"
        /\ ~oob

(***************************************************************************)
(* The Fourier transforms.  Complex arithmetic is exact arithmetic in the  *)
(* field of integers modulo FieldP, in which Cis(1, N), the image of       *)
(* cos(-2 pi / N) + i sin(-2 pi / N), is a primitive N-th root of unity    *)
(* for every length N of the model.                                        *)
(***************************************************************************)
FieldP == 2521
FieldG == 17         \* a generator of the multiplicative group modulo FieldP

CAdd(a, b) == (a + b) % FieldP
CSub(a, b) == (a - b) % FieldP
CMul(a, b) == (a * b) % FieldP

RECURSIVE CPow(_, _)
CPow(b, e) ==
    IF e = 0 THEN 1
    ELSE IF e % 2 = 0 THEN CPow(CMul(b, b), e \div 2)
    ELSE CMul(b, CPow(CMul(b, b), e \div 2))

\* Complex(cos(angle), sin(angle)) for angle = -2 pi num / den
Cis(num, den) == CPow(CPow(FieldG, (FieldP - 1) \div den), num % den)

\* a & b on two's complement integers, a >= 0
RECURSIVE BitAnd(_, _)
BitAnd(a, b) ==
    IF a = 0 THEN 0
    ELSE (a % 2) * (b % 2) + 2 * BitAnd(a \div 2, b \div 2)

Length(v) == Cardinality(DOMAIN v)

FOk(v) == [st |-> "ok", val |-> v]
FValueError == [st |-> "ValueError", val |-> <<>>]

RECURSIVE DftInner_FromOne(_, _, _, _, _)
RECURSIVE DftInner(_, _, _, _, _)
\* the slip of counting the samples from one in the angle
DftInner_FromOne(v, k, n, N, s) ==
    IF n < N
    THEN DftInner_FromOne(v, k, n + 1, N,
                          CAdd(s, CMul(v[n], Cis(k * (n + 1), N))))
    ELSE s

\* the n loop of dft_naive: s += x[n] * w
DftInner(v, k, n, N, s) ==
    IF n < N
    THEN DftInner(v, k, n + 1, N, CAdd(s, CMul(v[n], Cis(k * n, N))))
    ELSE s

dft_naive(v) ==
    LET N == Length(v)
    IN  [k \in 0..(N - 1) |-> DftInner(v, k, 0, N, 0)]

\* the slip of the twiddle of the half-length transform: angle = -2 pi k / (N/2)
Combine_HalfAngle(even_fft, odd_fft, N) ==
    [m \in 0..(N - 1) |->
        IF m < N \div 2
        THEN CAdd(even_fft[m], CMul(Cis(m, N \div 2), odd_fft[m]))
        ELSE CSub(even_fft[m - N \div 2],
                  CMul(Cis(m - N \div 2, N \div 2), odd_fft[m - N \div 2]))]

\* the combine loop: X[k] = even_fft[k] + t, X[k + N/2] = even_fft[k] - t
Combine(even_fft, odd_fft, N) ==
    [m \in 0..(N - 1) |->
        IF m < N \div 2
        THEN CAdd(even_fft[m], CMul(Cis(m, N), odd_fft[m]))
        ELSE CSub(even_fft[m - N \div 2],
                  CMul(Cis(m - N \div 2, N), odd_fft[m - N \div 2]))]

Even(v) == [i \in 0..(Length(v) \div 2 - 1) |-> v[2 * i]]
Odd(v) == [i \in 0..(Length(v) \div 2 - 1) |-> v[2 * i + 1]]

RECURSIVE fft_cooley_tukey(_)
fft_cooley_tukey(v) ==
    LET N == Length(v)
    IN  IF N <= 1 THEN v
        ELSE IF BitAnd(N, N - 1) # 0 THEN dft_naive(v)
        ELSE Combine(fft_cooley_tukey(Even(v)), fft_cooley_tukey(Odd(v)), N)

\* fft_cooley_tukey_cy: a [st, val] result, ValueError for a length that is
\* not a power of two
RECURSIVE fft_cooley_tukey_cy(_)
fft_cooley_tukey_cy(v) ==
    LET N == Length(v)
    IN  IF N <= 1 THEN FOk(v)
        ELSE IF BitAnd(N, N - 1) # 0 THEN FValueError
        ELSE LET even == fft_cooley_tukey_cy(Even(v))
                 odd == fft_cooley_tukey_cy(Odd(v))
             IN  IF even.st # "ok" THEN even
                 ELSE IF odd.st # "ok" THEN odd
                 ELSE FOk(Combine(even.val, odd.val, N))

\* the transforms that hand back the array they were given: the base case
\* of fft_cooley_tukey_cy is "return x"; every other return is of a vector
\* by value (C++) or of an array the call made (np.zeros, np.array)
ReturnsArgument(v) ==
    IF Length(v) <= 1 THEN {"fft_cooley_tukey_cy"} ELSE {}

(***************************************************************************)
(* fft_iterative and fft_iterative_cy, statement by statement.             *)
(***************************************************************************)
Lengths == 0..MaxLen
Vals == 0..MaxVal

InitFFT ==
    /\ \E N \in Lengths : x \in [0..(N - 1) -> Vals]
    /\ impl \in {"cpp", "cy"}
    /\ fpc = "idle"
    /\ X = <<>>
    /\ fi = 0 /\ fj = 0 /\ fk = 0
    /\ size = 0 /\ bi = 0 /\ bj = 0 /\ w = 0
    /\ rDft = FNotCalled /\ rCT = FNotCalled /\ rCTcy = FNotCalled
    /\ rIt = FNotCalled
    /\ xobj = x /\ same = {}
    /\ MIdle
    /\ NIdle
    /\ OIdle

\* the length check did not pass: fall back (C++) or raise (Cython)
FftNotPow2 ==
    /\ fpc = "idle"
    /\ BitAnd(Length(x), Length(x) - 1) # 0
    /\ rDft' = FOk(dft_naive(x))
    /\ rCT' = FOk(fft_cooley_tukey(x))
    /\ rCTcy' = fft_cooley_tukey_cy(x)
    /\ same' = ReturnsArgument(x)
    /\ rIt' = IF impl = "cpp" THEN FOk(dft_naive(x)) ELSE FValueError
    /\ fpc' = "done"
    /\ UNCHANGED <<x, xobj, impl, X, fi, fj, fk, size, bi, bj, w>>
    /\ UNCHANGED nonF

\* the length check passed: copy the input, j = 0
FftCall ==
    /\ fpc = "idle"
    /\ BitAnd(Length(x), Length(x) - 1) = 0
    /\ rDft' = FOk(dft_naive(x))
    /\ rCT' = FOk(fft_cooley_tukey(x))
    /\ rCTcy' = fft_cooley_tukey_cy(x)
    /\ same' = ReturnsArgument(x)
    /\ X' = x
    /\ fj' = 0
    /\ fi' = 0
    /\ fpc' = "perm"
    /\ UNCHANGED <<x, xobj, impl, fk, size, bi, bj, w, rIt>>
    /\ UNCHANGED nonF

\* the slip of swapping whenever i and j differ
SwapCond_NotEqual(i, j) == i # j

SwapCond(i, j) == i < j

\* for (i = 0; i < N - 1; i++) { if (i < j) swap(X[i], X[j]); k = N >> 1;
PermTop ==
    /\ fpc = "perm"
    /\ fi < Length(x) - 1
    /\ X' = IF SwapCond(fi, fj)
            THEN [X EXCEPT ![fi] = X[fj], ![fj] = X[fi]]
            ELSE X
    /\ fk' = Length(x) \div 2
    /\ fpc' = "while"
    /\ UNCHANGED <<x, xobj, same, impl, fi, fj, size, bi, bj, w, rDft, rCT, rCTcy, rIt>>
    /\ UNCHANGED nonF

\* the slip of testing k < j in the inner loop
WhileCond_Strict(k, j) == k < j

\* while (k <= j)
WhileCond(k, j) == k <= j

\* while (k <= j) { j -= k; k >>= 1; }
WhileBody ==
    /\ fpc = "while"
    /\ WhileCond(fk, fj)
    /\ fj' = fj - fk
    /\ fk' = fk \div 2
    /\ UNCHANGED <<x, xobj, same, impl, fpc, X, fi, size, bi, bj, w, rDft, rCT, rCTcy, rIt>>
    /\ UNCHANGED nonF

\* j += k; and the loop's i++
WhileExit ==
    /\ fpc = "while"
    /\ ~WhileCond(fk, fj)
    /\ fj' = fj + fk
    /\ fi' = fi + 1
    /\ fpc' = "perm"
    /\ UNCHANGED <<x, xobj, same, impl, X, fk, size, bi, bj, w, rDft, rCT, rCTcy, rIt>>
    /\ UNCHANGED nonF

\* the permutation loop ends; for (size = 2; ...
PermExit ==
    /\ fpc = "perm"
    /\ ~(fi < Length(x) - 1)
    /\ size' = 2
    /\ fpc' = "stage"
    /\ UNCHANGED <<x, xobj, same, impl, X, fi, fj, fk, bi, bj, w, rDft, rCT, rCTcy, rIt>>
    /\ UNCHANGED nonF

Half == size \div 2
Wm == Cis(1, size)

\* for (size = 2; size <= N; size <<= 1) { half, wm; for (i = 0; ...
Stage ==
    /\ fpc = "stage"
    /\ size <= Length(x)
    /\ bi' = 0
    /\ fpc' = "block"
    /\ UNCHANGED <<x, xobj, same, impl, X, fi, fj, fk, size, bj, w, rDft, rCT, rCTcy, rIt>>
    /\ UNCHANGED nonF

\* return X
FftReturn ==
    /\ fpc = "stage"
    /\ ~(size <= Length(x))
    /\ rIt' = FOk(X)
    /\ fpc' = "done"
    /\ UNCHANGED <<x, xobj, same, impl, X, fi, fj, fk, size, bi, bj, w, rDft, rCT, rCTcy>>
    /\ UNCHANGED nonF

\* for (i = 0; i < N; i += size) { w = 1; for (j = 0; ...
Block ==
    /\ fpc = "block"
    /\ bi < Length(x)
    /\ w' = 1
    /\ bj' = 0
    /\ fpc' = "bfly"
    /\ UNCHANGED <<x, xobj, same, impl, X, fi, fj, fk, size, bi, rDft, rCT, rCTcy, rIt>>
    /\ UNCHANGED nonF

\* size <<= 1
BlockExit ==
    /\ fpc = "block"
    /\ ~(bi < Length(x))
    /\ size' = size * 2
    /\ fpc' = "stage"
    /\ UNCHANGED <<x, xobj, same, impl, X, fi, fj, fk, bi, bj, w, rDft, rCT, rCTcy, rIt>>
    /\ UNCHANGED nonF

\* t = w * X[idx + half]; X[idx + half] = X[idx] - t; X[idx] = X[idx] + t;
\* w *= wm
Butterfly ==
    /\ fpc = "bfly"
    /\ bj < Half
    /\ LET idx == bi + bj
           t == CMul(w, X[idx + Half])
       IN  X' = [X EXCEPT ![idx + Half] = CSub(X[idx], t),
                          ![idx] = CAdd(X[idx], t)]
    /\ w' = CMul(w, Wm)
    /\ bj' = bj + 1
    /\ UNCHANGED <<x, xobj, same, impl, fpc, fi, fj, fk, size, bi, rDft, rCT, rCTcy, rIt>>
    /\ UNCHANGED nonF

\* i += size
ButterflyExit ==
    /\ fpc = "bfly"
    /\ ~(bj < Half)
    /\ bi' = bi + size
    /\ fpc' = "block"
    /\ UNCHANGED <<x, xobj, same, impl, X, fi, fj, fk, size, bj, w, rDft, rCT, rCTcy, rIt>>
    /\ UNCHANGED nonF

NextFFT ==
    \/ FftNotPow2
    \/ FftCall
    \/ PermTop
    \/ WhileBody
    \/ WhileExit
    \/ PermExit
    \/ Stage
    \/ FftReturn
    \/ Block
    \/ BlockExit
    \/ Butterfly
    \/ ButterflyExit

SpecFFT == InitFFT /\ [][NextFFT]_vars

\* the transform is sequential code: a step that can be taken is taken
FairSpecFFT == SpecFFT /\ WF_vars(NextFFT)

\* after the calls the caller stores c at index k of one returned array; an
\* array that is the caller's input array takes the store too
Transforms == {"dft_naive", "fft_cooley_tukey", "fft_cooley_tukey_cy", "fft_iterative"}

Stored(res, k, c) == [res EXCEPT !.val = [@ EXCEPT ![k] = c]]

WriteResult ==
    /\ fpc = "done"
    /\ \E name \in Transforms, k \in DOMAIN x, c \in Vals :
          /\ rDft' = IF name = "dft_naive" THEN Stored(rDft, k, c) ELSE rDft
          /\ rCT' = IF name = "fft_cooley_tukey" THEN Stored(rCT, k, c) ELSE rCT
          /\ name = "fft_cooley_tukey_cy" => rCTcy.st = "ok"
          /\ rCTcy' = IF name = "fft_cooley_tukey_cy" THEN Stored(rCTcy, k, c) ELSE rCTcy
          /\ name = "fft_iterative" => rIt.st = "ok"
          /\ rIt' = IF name = "fft_iterative" THEN Stored(rIt, k, c) ELSE rIt
          /\ xobj' = IF name \in same THEN [xobj EXCEPT ![k] = c] ELSE xobj
    /\ fpc' = "written"
    /\ UNCHANGED <<x, same, impl, X, fi, fj, fk, size, bi, bj, w>>
    /\ UNCHANGED nonF

NextFFTOwn ==
    \/ NextFFT
    \/ WriteResult

SpecFFTOwn == InitFFT /\ [][NextFFTOwn]_vars

(***************************************************************************)
(* Properties of the Fourier transforms.                                   *)
(***************************************************************************)
NLen == Length(x)

RECURSIVE TwoTo(_)
TwoTo(e) == IF e = 0 THEN 1 ELSE 2 * TwoTo(e - 1)

IsPow2(N) == \E e \in 0..N : N = TwoTo(e)

Log2(N) == CHOOSE e \in 0..N : N = TwoTo(e)

\* the value of the bits-bit number i read backwards
RECURSIVE Rev(_, _)
Rev(bits, i) ==
    IF bits = 0 THEN 0
    ELSE (i % 2) * TwoTo(bits - 1) + Rev(bits - 1, i \div 2)

RevN(i) == Rev(Log2(NLen), i)

\* sum over n in [0, n) of v[n] * omega^(k*n), omega the primitive root
RECURSIVE SigmaDft(_, _, _, _)
SigmaDft(v, k, n, omega) ==
    IF n = 0 THEN 0
    ELSE SigmaDft(v, k, n - 1, omega) + v[n - 1] * CPow(omega, k * (n - 1))

DftSpec(v) ==
    [k \in 0..(Length(v) - 1) |->
        SigmaDft(v, k, Length(v), Cis(1, Length(v))) % FieldP]

\* C2: for a length that is not a power of two the fast transforms, C++ and
\* Cython, return what dft_naive returns and raise no error.
C2_FallbackToNaive ==
    (fpc = "done" /\ NLen >= 1 /\ ~IsPow2(NLen)) =>
        /\ rDft.st = "ok"
        /\ rCT = rDft
        /\ rCTcy = rDft
        /\ rIt = rDft

\* C3: for a power-of-two length fft_cooley_tukey and fft_iterative equal
\* dft_naive, X[k] = sum over n of x[n] * omega^(k*n), and the accumulated
\* twiddle of the iterative variant is wm^j at butterfly j.
C3_FftIsDft ==
    (fpc \notin {"off", "idle"} /\ IsPow2(NLen)) =>
        /\ rDft = FOk(DftSpec(x))
        /\ rCT = rDft
        /\ rCTcy = rDft
        /\ fpc = "bfly" => w = CPow(Cis(1, size), bj)
        /\ fpc = "done" => rIt = rDft

C3_Witness ==
    /\ fpc = "done" /\ NLen = 8 /\ impl = "cpp"
    /\ rIt = FOk(DftSpec(x)) /\ rCT = rIt
    /\ \E k \in DOMAIN x : rIt.val[k] # rIt.val[0]
    /\ rIt.val # x

\* the buffer after the iterations i < done of the permutation loop
Permuted(done) ==
    [p \in 0..(NLen - 1) |->
        IF Min(p, RevN(p)) < done THEN x[RevN(p)] ELSE x[p]]

\* C10: for N = 2^m >= 2, at the top of iteration i of the permutation loop
\* j is the m-bit reversal of i, exactly the pairs i < rev(i) met so far are
\* swapped, and after the loop X[i] = x[rev(i)] for every i.
C10_BitReversal ==
    (IsPow2(NLen) /\ NLen >= 2) =>
        /\ fpc = "perm" => fj = RevN(fi) /\ X = Permuted(fi)
        /\ fpc = "while" => X = Permuted(fi + 1)
        /\ (fpc = "stage" /\ size = 2) =>
               X = [i \in 0..(NLen - 1) |-> x[RevN(i)]]

C10_Witness ==
    /\ fpc = "stage" /\ size = 2 /\ NLen = 8
    /\ X = [i \in 0..(NLen - 1) |-> x[RevN(i)]]
    /\ x[1] # x[4] /\ X[1] = x[4] /\ X[4] = x[1]
    /\ x[3] # x[6] /\ X[6] = x[3]

\* the bit-reversal loop is running
InPermLoop == fpc = "while" \/ (fpc = "perm" /\ fi < NLen - 1)

PermSafe ==
    (IsPow2(NLen) \/ NLen = 0) =>
        /\ fpc = "while" => fk >= 1
        /\ InPermLoop => (0 <= fj /\ fj <= NLen - 1)
        /\ (fpc = "perm" /\ fi < NLen - 1 /\ SwapCond(fi, fj)) =>
               (fi \in DOMAIN X /\ fj \in DOMAIN X)

\* C27: in the bit-reversal loop of fft_iterative the inner loop
\* "while (k <= j)" exits with k >= 1 (k never reaches 0), j stays in
\* [0, N-1], every swap index is inside the buffer, and the permutation
\* phase terminates for N = 0, 1, 2, 4, 8.
C27_PermutationTerminates ==
    /\ []PermSafe
    /\ <>(fpc \notin {"idle", "perm", "while"})

C27_Witness ==
    /\ fpc = "while" /\ NLen = 8
    /\ fi = 3 /\ fk = 1 /\ fj = 0
    /\ ~WhileCond(fk, fj)

\* the unit impulse of the length of x
Impulse == [n \in 0..(NLen - 1) |-> IF n = 0 THEN 1 ELSE 0]

\* C16: every transform returns a sequence of its own, a different object
\* from its input, and leaves the input as it was; a store into a returned
\* sequence never changes the caller's input.
C16_FreshResult ==
    /\ xobj = x
    /\ same = {}

\* C17: for N >= 1, dft_naive of the unit impulse [1, 0, ..., 0] is the
\* length-N sequence whose entries are all exactly 1.
C17_ImpulseIsFlat ==
    (fpc \notin {"off", "idle"} /\ NLen >= 1 /\ x = Impulse) =>
        rDft = FOk([k \in 0..(NLen - 1) |-> 1])

C17_Witness ==
    /\ fpc = "done" /\ NLen = 6 /\ x = Impulse
    /\ rDft.st = "ok"
    /\ Length(rDft.val) = 6
    /\ \A k \in 0..5 : rDft.val[k] = 1

(***************************************************************************)
(* The N-body step.  A body is a record [x, y, vx, vy, m].  The doubles    *)
(* are modelled by integers: +, - and * are exact, sqrt is the integer     *)
(* square root and 1.0 / v is FixedOne \div v.                             *)
(***************************************************************************)
Sqrt(v) == CHOOSE r \in 0..v : r * r <= v /\ v < (r + 1) * (r + 1)

NCount(b) == Cardinality(DOMAIN b)

\* the accumulators of one body; terms counts the pairwise terms added
NoAccel == [ax |-> 0, ay |-> 0, terms |-> 0]

\* the slip of leaving the softening out of the distance
SoftDistSq_NoSoftening(src, i, j) ==
    LET dx == src[j].x - src[i].x
        dy == src[j].y - src[i].y
    IN  dx * dx + dy * dy

\* dist_sq + softening
SoftDistSq(src, i, j) ==
    LET dx == src[j].x - src[i].x
        dy == src[j].y - src[i].y
        dist_sq == dx * dx + dy * dy
    IN  dist_sq + softening

\* dist_soft * dist_soft * dist_soft, the divisor of the pairwise term
DistSoftCube(src, i, j) ==
    LET dist_soft == Sqrt(SoftDistSq(src, i, j))
    IN  dist_soft * dist_soft * dist_soft

\* the slip of weighting the pull on body i by its own mass
PairTerm_OwnMass(src, i, j, acc) ==
    LET dx == src[j].x - src[i].x
        dy == src[j].y - src[i].y
        inv_dist_cube == FixedOne \div DistSoftCube(src, i, j)
        force_factor == G * src[i].m * inv_dist_cube
    IN  [ax |-> acc.ax + dx * force_factor,
         ay |-> acc.ay + dy * force_factor,
         terms |-> acc.terms + 1]

\* one pass of the j loop for body i: the contribution of body j
PairTerm(src, i, j, acc) ==
    LET dx == src[j].x - src[i].x
        dy == src[j].y - src[i].y
        inv_dist_cube == FixedOne \div DistSoftCube(src, i, j)
        force_factor == G * src[j].m * inv_dist_cube
    IN  [ax |-> acc.ax + dx * force_factor,
         ay |-> acc.ay + dy * force_factor,
         terms |-> acc.terms + 1]

RECURSIVE AccelLoop_NoSkip(_, _, _, _)
RECURSIVE AccelLoop(_, _, _, _)
\* the slip of leaving out the i == j test
AccelLoop_NoSkip(src, i, j, acc) ==
    IF j < NCount(src)
    THEN AccelLoop_NoSkip(src, i, j + 1, PairTerm(src, i, j, acc))
    ELSE acc

\* for (j = 0; j < N; j++) { if (i == j) continue; ... }
AccelLoop(src, i, j, acc) ==
    IF j < NCount(src)
    THEN AccelLoop(src, i, j + 1,
                   IF i = j THEN acc ELSE PairTerm(src, i, j, acc))
    ELSE acc

\* the slip of building the updated body afresh, its mass left at the
\* default of Body()
Moved_FreshBody(b, axi, ayi) ==
    LET nvx == b.vx + axi * dt
        nvy == b.vy + ayi * dt
    IN  [x |-> b.x + nvx * dt, y |-> b.y + nvy * dt,
         vx |-> nvx, vy |-> nvy, m |-> 0]

\* the slip of moving with the velocity the body had before the step
Moved_OldVelocity(b, axi, ayi) ==
    LET nvx == b.vx + axi * dt
        nvy == b.vy + ayi * dt
    IN  [b EXCEPT !.vx = nvx, !.vy = nvy,
                  !.x = b.x + b.vx * dt, !.y = b.y + b.vy * dt]

\* vx += ax*dt; vy += ay*dt; x += vx*dt; y += vy*dt
Moved(b, axi, ayi) ==
    LET nvx == b.vx + axi * dt
        nvy == b.vy + ayi * dt
    IN  [b EXCEPT !.vx = nvx, !.vy = nvy,
                  !.x = b.x + nvx * dt, !.y = b.y + nvy * dt]

Velocities == {<<0, 0>>, <<1, 0>>, <<-1, 1>>}

Body == {[x |-> px, y |-> py, vx |-> v[1], vy |-> v[2], m |-> pm] :
            px \in 0..MaxPos, py \in 0..MaxPos, v \in Velocities, pm \in 1..MaxMass}

InitNBody ==
    /\ \E N \in 0..MaxBodies : bodies \in [0..(N - 1) -> Body]
    /\ pre = bodies
    /\ dt \in 1..MaxDt
    /\ G \in 1..MaxG
    /\ softening \in 1..MaxSoft
    /\ nimpl \in {"cpp", "cy"}
    /\ npc = "idle"
    /\ work = <<>> /\ ax = <<>> /\ ay = <<>>
    /\ ni = 0
    /\ ret = <<>> /\ retIsInput = FALSE
    /\ MIdle
    /\ FIdle
    /\ OIdle

\* updated_bodies = bodies (C++); body_array[i] = bodies[i] field by field
\* (Cython); the acceleration arrays
NCall ==
    /\ npc = "idle"
    /\ work' = bodies
    /\ ax' = [i \in DOMAIN bodies |-> 0]
    /\ ay' = [i \in DOMAIN bodies |-> 0]
    /\ ni' = 0
    /\ npc' = "accel"
    /\ UNCHANGED <<bodies, pre, dt, G, softening, nimpl, ret, retIsInput>>
    /\ UNCHANGED nonN

\* the slip of one fused loop: each body is moved right after its force
\* sum, so the sum of body i reads the bodies before it already moved
ForceSource_Fused(i) ==
    [k \in DOMAIN work |->
        IF k < i THEN Moved(work[k], ax[k], ay[k]) ELSE work[k]]

\* the bodies the force sum of body i reads: the C++ code reads the
\* argument, the Cython code its C copy
ForceSource(i) == IF nimpl = "cpp" THEN bodies ELSE work

\* one pass of the i loop of the acceleration phase
Accel ==
    /\ npc = "accel"
    /\ ni < NCount(work)
    /\ LET a == AccelLoop(ForceSource(ni), ni, 0, NoAccel)
       IN  /\ ax' = [ax EXCEPT ![ni] = a.ax]
           /\ ay' = [ay EXCEPT ![ni] = a.ay]
    /\ ni' = ni + 1
    /\ UNCHANGED <<bodies, pre, dt, G, softening, nimpl, npc, work, ret, retIsInput>>
    /\ UNCHANGED nonN

AccelExit ==
    /\ npc = "accel"
    /\ ~(ni < NCount(work))
    /\ ni' = 0
    /\ npc' = "update"
    /\ UNCHANGED <<bodies, pre, dt, G, softening, nimpl, work, ax, ay, ret, retIsInput>>
    /\ UNCHANGED nonN

\* one pass of the update loop
Update ==
    /\ npc = "update"
    /\ ni < NCount(work)
    /\ work' = [work EXCEPT ![ni] = Moved(work[ni], ax[ni], ay[ni])]
    /\ ni' = ni + 1
    /\ UNCHANGED <<bodies, pre, dt, G, softening, nimpl, npc, ax, ay, ret, retIsInput>>
    /\ UNCHANGED nonN

\* C++: return updated_bodies
ReturnCpp ==
    /\ npc = "update"
    /\ ~(ni < NCount(work))
    /\ nimpl = "cpp"
    /\ ret' = work
    /\ retIsInput' = FALSE
    /\ npc' = "done"
    /\ UNCHANGED <<bodies, pre, dt, G, softening, nimpl, work, ax, ay, ni>>
    /\ UNCHANGED nonN

\* Cython: on to the copy-back loop
UpdateExitCy ==
    /\ npc = "update"
    /\ ~(ni < NCount(work))
    /\ nimpl = "cy"
    /\ ni' = 0
    /\ npc' = "copyback"
    /\ UNCHANGED <<bodies, pre, dt, G, softening, nimpl, work, ax, ay, ret, retIsInput>>
    /\ UNCHANGED nonN

\* bodies[i]['x'] = body_array[i].x, and y, vx, vy
CopyBack ==
    /\ npc = "copyback"
    /\ ni < NCount(work)
    /\ bodies' = [bodies EXCEPT ![ni] =
                     [@ EXCEPT !.x = work[ni].x, !.y = work[ni].y,
                               !.vx = work[ni].vx, !.vy = work[ni].vy]]
    /\ ni' = ni + 1
    /\ UNCHANGED <<pre, dt, G, softening, nimpl, npc, work, ax, ay, ret, retIsInput>>
    /\ UNCHANGED nonN

\* Cython: return bodies, the argument itself
ReturnCy ==
    /\ npc = "copyback"
    /\ ~(ni < NCount(work))
    /\ ret' = bodies
    /\ retIsInput' = TRUE
    /\ npc' = "done"
    /\ UNCHANGED <<bodies, pre, dt, G, softening, nimpl, work, ax, ay, ni>>
    /\ UNCHANGED nonN

NextNBody ==
    \/ NCall
    \/ Accel
    \/ AccelExit
    \/ Update
    \/ ReturnCpp
    \/ UpdateExitCy
    \/ CopyBack
    \/ ReturnCy

SpecNBody == InitNBody /\ [][NextNBody]_vars

(***************************************************************************)
(* Properties of the N-body step.                                          *)
(***************************************************************************)
\* the net acceleration of body i in the configuration b: the sum of the
\* pairwise terms over every other body
RECURSIVE NetAccel(_, _, _)
NetAccel(b, i, others) ==
    IF others = {} THEN NoAccel
    ELSE LET j == CHOOSE o \in others : TRUE
         IN  PairTerm(b, i, j, NetAccel(b, i, others \ {j}))

NetOf(i) == NetAccel(pre, i, DOMAIN pre \ {i})

\* C4: the step leaves the caller's body sequence as it was before the call
\* and returns a separate value.
C4_InputUntouched ==
    /\ bodies = pre
    /\ npc = "done" => ~retIsInput

\* C5: the new velocity is v + a*dt and the new position is
\* pos + (v + a*dt)*dt, with a the net acceleration of the body.
C5_VelocityThenPosition ==
    npc = "done" =>
        /\ DOMAIN ret = DOMAIN pre
        /\ \A i \in DOMAIN pre :
              LET a == NetOf(i)
              IN  /\ ret[i].vx = pre[i].vx + a.ax * dt
                  /\ ret[i].vy = pre[i].vy + a.ay * dt
                  /\ ret[i].x = pre[i].x + (pre[i].vx + a.ax * dt) * dt
                  /\ ret[i].y = pre[i].y + (pre[i].vy + a.ay * dt) * dt

C5_Witness ==
    /\ npc = "done" /\ NCount(pre) = 2 /\ dt = 2
    /\ NetOf(0).ax # 0 /\ NetOf(1).ay # 0
    /\ ret[0].vx = pre[0].vx + NetOf(0).ax * dt
    /\ ret[0].x = pre[0].x + ret[0].vx * dt
    /\ ret[0].x # pre[0].x + pre[0].vx * dt

\* body i after one step, from the formulas of the method
Stepped(i) ==
    LET a == NetOf(i)
        nvx == pre[i].vx + a.ax * dt
        nvy == pre[i].vy + a.ay * dt
    IN  [x |-> pre[i].x + nvx * dt, y |-> pre[i].y + nvy * dt,
         vx |-> nvx, vy |-> nvy, m |-> pre[i].m]

\* C11: the step returns exactly N bodies, body i of the output is the
\* update of body i of the input, and every mass is unchanged.
C11_SameBodiesSameMass ==
    npc = "done" =>
        /\ NCount(ret) = NCount(pre)
        /\ ret = [i \in DOMAIN pre |-> Stepped(i)]
        /\ \A i \in DOMAIN pre : ret[i].m = pre[i].m

C11_Witness ==
    /\ npc = "done" /\ NCount(pre) = 2 /\ NCount(ret) = 2
    /\ pre[0].m # pre[1].m
    /\ ret[0].m = pre[0].m /\ ret[1].m = pre[1].m
    /\ ret[0] = Stepped(0) /\ ret[1] = Stepped(1)
    /\ Stepped(0) # Stepped(1)
    /\ ret[0] # pre[0]

\* C12: with no body the step returns the empty sequence; with one body no
\* pairwise term is added, the acceleration is zero, the velocity is
\* unchanged and the position advances by exactly v*dt.
C12_EmptyAndSingle ==
    /\ (npc = "done" /\ NCount(pre) = 0) => ret = <<>>
    /\ (npc # "idle" /\ NCount(pre) = 1) =>
           /\ AccelLoop(pre, 0, 0, NoAccel) = NoAccel
           /\ (npc \in {"update", "copyback", "done"}) => (ax[0] = 0 /\ ay[0] = 0)
           /\ npc = "done" =>
                  /\ ret[0].vx = pre[0].vx /\ ret[0].vy = pre[0].vy
                  /\ ret[0].x = pre[0].x + pre[0].vx * dt
                  /\ ret[0].y = pre[0].y + pre[0].vy * dt

C12_Witness ==
    /\ npc = "done" /\ NCount(pre) = 1 /\ dt = 2
    /\ pre[0].vx # 0 /\ pre[0].vy # 0
    /\ ax[0] = 0 /\ ay[0] = 0
    /\ ret[0].vx = pre[0].vx
    /\ ret[0].x = pre[0].x + pre[0].vx * dt
    /\ ret[0].x # pre[0].x

C12_WitnessEmpty == npc = "done" /\ NCount(pre) = 0 /\ ret = <<>>

\* the pull of body j on body i, alone
Pull(i, j) == PairTerm(pre, i, j, NoAccel)

\* C13: the pairwise contributions are antisymmetric up to mass,
\* m_i * a_ij = -(m_j * a_ji); two bodies of equal mass at rest get
\* accelerations equal in magnitude and opposite in sign, each pointing
\* toward the other body.
C13_Antisymmetric ==
    npc # "idle" =>
        /\ \A i, j \in DOMAIN pre :
              i # j =>
                 /\ pre[i].m * Pull(i, j).ax = -(pre[j].m * Pull(j, i).ax)
                 /\ pre[i].m * Pull(i, j).ay = -(pre[j].m * Pull(j, i).ay)
        /\ (/\ npc \in {"update", "copyback", "done"}
            /\ NCount(pre) = 2
            /\ pre[0].m = pre[1].m
            /\ \A i \in DOMAIN pre : pre[i].vx = 0 /\ pre[i].vy = 0) =>
               /\ ax[0] = -ax[1] /\ ay[0] = -ay[1]
               /\ ax[0] * (pre[1].x - pre[0].x) >= 0
               /\ ay[0] * (pre[1].y - pre[0].y) >= 0
               /\ ax[1] * (pre[0].x - pre[1].x) >= 0
               /\ ay[1] * (pre[0].y - pre[1].y) >= 0

C13_Witness ==
    /\ npc = "done" /\ NCount(pre) = 2
    /\ pre[0].m = pre[1].m
    /\ \A i \in DOMAIN pre : pre[i].vx = 0 /\ pre[i].vy = 0
    /\ pre[1].x > pre[0].x
    /\ ax[0] > 0 /\ ax[1] = -ax[0]
    /\ ret[0].vx = ax[0] * dt /\ ret[1].vx = -ret[0].vx

C13_WitnessMasses ==
    /\ npc = "done" /\ NCount(pre) = 2
    /\ pre[0].m # pre[1].m
    /\ Pull(0, 1).ax # 0
    /\ Pull(0, 1).ax # -Pull(1, 0).ax
    /\ pre[0].m * Pull(0, 1).ax = -(pre[1].m * Pull(1, 0).ax)

C28_ForcesFromPreStep ==
    /\ npc = "accel" =>
           /\ work = pre /\ bodies = pre
           /\ ForceSource(ni) = pre
           /\ \A i \in DOMAIN pre :
                 i < ni => (ax[i] = NetOf(i).ax /\ ay[i] = NetOf(i).ay)
    /\ npc \in {"update", "copyback", "done"} =>
           \A i \in DOMAIN pre : ax[i] = NetOf(i).ax /\ ay[i] = NetOf(i).ay

C28_Witness ==
    /\ npc = "update" /\ ni = 1 /\ NCount(pre) = 2
    /\ work[0] # pre[0] /\ work[0].x # pre[0].x
    /\ work[1] = pre[1]
    /\ ax[1] = NetOf(1).ax /\ ax[1] # 0
    /\ ax[1] # PairTerm(work, 1, 0, NoAccel).ax


(***************************************************************************)
(* initialize_bodies.  rand() is any of 0..RandMax.  The fields of a       *)
(* generated body are kept exact as numerators: x, y, vx and vy in units   *)
(* of 1/RandMax and m in units of 1/(10*RandMax), so that                  *)
(* (rand() / RAND_MAX) * box_size is r * box_size, (rand() / RAND_MAX) *   *)
(* 2.0 - 1.0 is 2*r - RandMax and (rand() / RAND_MAX) * (max_mass - 0.1)   *)
(* + 0.1 is r * (10*max_mass - 1) + RandMax.                               *)
(***************************************************************************)
Rand == 0..RandMax

\* the body one pass of the loop makes out of five calls of rand()
NewBody(r1, r2, r3, r4, r5) ==
    [x |-> r1 * box_size,
     y |-> r2 * box_size,
     vx |-> 2 * r3 - RandMax,
     vy |-> 2 * r4 - RandMax,
     m |-> r5 * (10 * max_mass - 1) + RandMax]

InitGen ==
    /\ gN \in 0..MaxGenN
    /\ box_size \in 1..MaxBox
    /\ max_mass \in 1..MaxMass
    /\ seeded \in BOOLEAN
    /\ gpc = "idle"
    /\ gi = 0
    /\ made = <<>>
    /\ MIdle
    /\ FIdle
    /\ NIdle
    /\ AIdle
    /\ BIdle
    /\ QIdle
    /\ SIdle
    /\ KIdle
    /\ EIdle
    /\ VIdle
    /\ TIdle
    /\ WIdle

\* bodies.reserve(N); seed once; i = 0
GenCall ==
    /\ gpc = "idle"
    /\ seeded' = TRUE
    /\ made' = <<>>
    /\ gi' = 0
    /\ gpc' = "loop"
    /\ UNCHANGED <<gN, box_size, max_mass>>
    /\ UNCHANGED nonG

\* one pass of the loop: five draws and bodies.push_back(body)
GenBody ==
    /\ gpc = "loop"
    /\ gi < gN
    /\ \E r1 \in Rand, r2 \in Rand, r3 \in Rand, r4 \in Rand, r5 \in Rand :
          made' = [k \in 0..gi |->
                      IF k = gi THEN NewBody(r1, r2, r3, r4, r5) ELSE made[k]]
    /\ gi' = gi + 1
    /\ UNCHANGED <<gN, box_size, max_mass, seeded, gpc>>
    /\ UNCHANGED nonG

\* return bodies
GenReturn ==
    /\ gpc = "loop"
    /\ ~(gi < gN)
    /\ gpc' = "done"
    /\ UNCHANGED <<gN, box_size, max_mass, seeded, gi, made>>
    /\ UNCHANGED nonG

NextGen ==
    \/ GenCall
    \/ GenBody
    \/ GenReturn

SpecGen == InitGen /\ [][NextGen]_vars

(***************************************************************************)
(* Properties of initialize_bodies.                                        *)
(***************************************************************************)
\* C15: initialize_bodies returns exactly N bodies, and for every value of
\* rand() in 0..RAND_MAX, x and y are in [0, box_size) with box_size itself
\* excluded, vx and vy in [-1, 1] and m in [0.1, max_mass].
C15_InitialRanges ==
    gpc = "done" =>
        /\ Cardinality(DOMAIN made) = gN
        /\ \A k \in DOMAIN made :
              /\ 0 <= made[k].x /\ made[k].x < box_size * RandMax
              /\ 0 <= made[k].y /\ made[k].y < box_size * RandMax
              /\ -RandMax <= made[k].vx /\ made[k].vx <= RandMax
              /\ -RandMax <= made[k].vy /\ made[k].vy <= RandMax
              /\ RandMax <= made[k].m /\ made[k].m <= 10 * max_mass * RandMax

(***************************************************************************)
(* The raw buffers of the Cython kernels.  Each kernel mallocs its         *)
(* top-level buffers, tests them for NULL, mallocs the rows of its         *)
(* row-pointer arrays inside try, and frees in finally.  Any malloc may    *)
(* return NULL.  A row-pointer array comes from malloc with its slots      *)
(* unwritten: a slot never assigned reads as NULL or as a non-NULL value,  *)
(* one or the other for the whole call (wild).                             *)
(***************************************************************************)
Kernels == {"convolution_1d_cy", "convolution_2d_cy", "kmeans_iteration_cy",
            "nbody_step_update_cy", "breadth_first_search_cy"}

Unset == -1

\* the top-level buffers in the order of their malloc
TopBufs(kern) ==
    CASE kern = "convolution_1d_cy" -> <<"padded_data", "kernel_arr">>
      [] kern = "convolution_2d_cy" -> <<"padded_image", "kernel_arr", "output">>
      [] kern = "kmeans_iteration_cy" ->
            <<"data_arr", "centroids_arr", "assignments", "cluster_counts",
              "cluster_sums">>
      [] kern = "nbody_step_update_cy" -> <<"body_array", "accel_x", "accel_y">>
      [] kern = "breadth_first_search_cy" -> <<"queue", "visited_array">>

\* the row-pointer arrays in the order their rows are allocated
RowArrays(kern) ==
    CASE kern = "convolution_2d_cy" -> <<"padded_image", "kernel_arr", "output">>
      [] kern = "kmeans_iteration_cy" -> <<"data_arr", "centroids_arr", "cluster_sums">>
      [] OTHER -> <<>>

\* the number of rows of a row-pointer array
RowCount(kern, name) ==
    CASE kern = "convolution_2d_cy" /\ name = "padded_image" -> d1 + 2 * (d2 \div 2)
      [] kern = "convolution_2d_cy" /\ name = "kernel_arr" -> d2
      [] kern = "convolution_2d_cy" /\ name = "output" -> d1
      [] kern = "kmeans_iteration_cy" /\ name = "data_arr" -> d1
      [] kern = "kmeans_iteration_cy" /\ name = "centroids_arr" -> d2
      [] kern = "kmeans_iteration_cy" /\ name = "cluster_sums" -> d2
      [] OTHER -> 0

\* the buffers in the order finally frees them
FinallyOrder(kern) ==
    IF kern = "kmeans_iteration_cy"
    THEN <<"data_arr", "centroids_arr", "cluster_sums", "assignments",
           "cluster_counts">>
    ELSE TopBufs(kern)

\* the NULL test frees the buffers that were allocated before it raises
FreesOnNull(kern) == kern # "kmeans_iteration_cy"

\* the NULL test follows each malloc instead of all of them
ChecksEach(kern) == kern = "breadth_first_search_cy"

Range(seq) == {seq[k] : k \in DOMAIN seq}

InitAlloc ==
    /\ akern \in Kernels
    /\ d1 \in 1..MaxRows
    /\ d2 \in 1..MaxRows
    /\ wild \in BOOLEAN
    /\ apc = "idle"
    /\ at = 0 /\ aslot = 0
    /\ top = [name \in Range(TopBufs(akern)) |-> 0]
    /\ slots = [name \in Range(RowArrays(akern)) |->
                   [k \in 0..(RowCount(akern, name) - 1) |-> Unset]]
    /\ nextId = 1
    /\ live = {} /\ freed = {}
    /\ twice = FALSE /\ badFree = FALSE /\ failed = FALSE
    /\ aexc = "none"
    /\ MIdle
    /\ FIdle
    /\ NIdle
    /\ GIdle
    /\ BIdle
    /\ QIdle
    /\ SIdle
    /\ KIdle
    /\ EIdle
    /\ VIdle
    /\ TIdle
    /\ WIdle

\* the call reaches its first malloc
AllocCall ==
    /\ apc = "idle"
    /\ apc' = "top"
    /\ at' = 1
    /\ UNCHANGED <<akern, d1, d2, wild, aslot, top, slots, nextId, live, freed,
                   twice, badFree, failed, aexc>>
    /\ UNCHANGED nonA

\* buf = malloc(...): a new allocation, or NULL
TopMalloc ==
    /\ apc = "top"
    /\ at <= Len(TopBufs(akern))
    /\ \E ok \in BOOLEAN :
          /\ top' = [top EXCEPT ![TopBufs(akern)[at]] = IF ok THEN nextId ELSE 0]
          /\ nextId' = IF ok THEN nextId + 1 ELSE nextId
          /\ live' = IF ok THEN live \cup {nextId} ELSE live
          /\ failed' = (failed \/ ~ok)
          /\ IF ChecksEach(akern) /\ ~ok
             THEN apc' = "check" /\ at' = at
             ELSE apc' = apc /\ at' = at + 1
    /\ UNCHANGED <<akern, d1, d2, wild, aslot, slots, freed, twice, badFree, aexc>>
    /\ UNCHANGED nonA

\* every top-level malloc is done
TopDone ==
    /\ apc = "top"
    /\ at > Len(TopBufs(akern))
    /\ apc' = "check"
    /\ UNCHANGED <<akern, d1, d2, wild, at, aslot, top, slots, nextId, live,
                   freed, twice, badFree, failed, aexc>>
    /\ UNCHANGED nonA

\* if (a == NULL or b == NULL ...): free the others (not in
\* kmeans_iteration_cy) and raise MemoryError
NullRaise ==
    /\ apc = "check"
    /\ \E name \in DOMAIN top : top[name] = 0
    /\ LET got == {top[name] : name \in DOMAIN top} \ {0}
       IN  IF FreesOnNull(akern)
           THEN /\ live' = live \ got
                /\ freed' = freed \cup got
                /\ twice' = (twice \/ got \cap freed # {})
           ELSE UNCHANGED <<live, freed, twice>>
    /\ aexc' = "MemoryError"
    /\ apc' = "raised"
    /\ UNCHANGED <<akern, d1, d2, wild, at, aslot, top, slots, nextId, badFree,
                   failed>>
    /\ UNCHANGED nonA

\* no top-level buffer is NULL: into try
NullPass ==
    /\ apc = "check"
    /\ \A name \in DOMAIN top : top[name] # 0
    /\ apc' = "rows"
    /\ at' = 1
    /\ aslot' = 0
    /\ UNCHANGED <<akern, d1, d2, wild, top, slots, nextId, live, freed, twice,
                   badFree, failed, aexc>>
    /\ UNCHANGED nonA

\* arr[i] = malloc(...); if arr[i] == NULL: raise MemoryError
RowMalloc ==
    /\ apc = "rows"
    /\ at <= Len(RowArrays(akern))
    /\ aslot < RowCount(akern, RowArrays(akern)[at])
    /\ \E ok \in BOOLEAN :
          /\ slots' = [slots EXCEPT ![RowArrays(akern)[at]][aslot] =
                                       IF ok THEN nextId ELSE 0]
          /\ nextId' = IF ok THEN nextId + 1 ELSE nextId
          /\ live' = IF ok THEN live \cup {nextId} ELSE live
          /\ failed' = (failed \/ ~ok)
          /\ IF ok
             THEN /\ aslot' = aslot + 1
                  /\ UNCHANGED <<apc, at, aexc>>
             ELSE /\ aexc' = "MemoryError"
                  /\ apc' = "finally"
                  /\ at' = 1
                  /\ aslot' = 0
    /\ UNCHANGED <<akern, d1, d2, wild, top, freed, twice, badFree>>
    /\ UNCHANGED nonA

\* the rows of one array are allocated: the next array
RowNext ==
    /\ apc = "rows"
    /\ at <= Len(RowArrays(akern))
    /\ ~(aslot < RowCount(akern, RowArrays(akern)[at]))
    /\ at' = at + 1
    /\ aslot' = 0
    /\ UNCHANGED <<akern, d1, d2, wild, apc, top, slots, nextId, live, freed,
                   twice, badFree, failed, aexc>>
    /\ UNCHANGED nonA

\* the rows are allocated; the rest of try allocates nothing and returns
RowsDone ==
    /\ apc = "rows"
    /\ at > Len(RowArrays(akern))
    /\ apc' = "finally"
    /\ at' = 1
    /\ aslot' = 0
    /\ UNCHANGED <<akern, d1, d2, wild, top, slots, nextId, live, freed, twice,
                   badFree, failed, aexc>>
    /\ UNCHANGED nonA

\* finally: if arr[i] != NULL: free(arr[i]).  A slot never assigned holds
\* whatever malloc left there; free of such a value may end the process.
FinallySlot ==
    /\ apc = "finally"
    /\ at <= Len(FinallyOrder(akern))
    /\ aslot < RowCount(akern, FinallyOrder(akern)[at])
    /\ LET v == slots[FinallyOrder(akern)[at]][aslot]
       IN  IF v > 0
           THEN /\ live' = live \ {v}
                /\ freed' = freed \cup {v}
                /\ twice' = (twice \/ v \in freed)
                /\ aslot' = aslot + 1
                /\ UNCHANGED <<apc, badFree>>
           ELSE IF v = Unset /\ wild
           THEN /\ badFree' = TRUE
                /\ \E crash \in BOOLEAN :
                      IF crash
                      THEN apc' = "crashed" /\ aslot' = aslot
                      ELSE apc' = apc /\ aslot' = aslot + 1
                /\ UNCHANGED <<live, freed, twice>>
           ELSE /\ aslot' = aslot + 1
                /\ UNCHANGED <<apc, live, freed, twice, badFree>>
    /\ UNCHANGED <<akern, d1, d2, wild, at, top, slots, nextId, failed, aexc>>
    /\ UNCHANGED nonA

\* finally: free(arr), after its rows if it has rows
FinallyArray ==
    /\ apc = "finally"
    /\ at <= Len(FinallyOrder(akern))
    /\ ~(aslot < RowCount(akern, FinallyOrder(akern)[at]))
    /\ LET v == top[FinallyOrder(akern)[at]]
       IN  /\ live' = live \ {v}
           /\ freed' = freed \cup {v}
           /\ twice' = (twice \/ v \in freed)
    /\ at' = at + 1
    /\ aslot' = 0
    /\ UNCHANGED <<akern, d1, d2, wild, apc, top, slots, nextId, badFree, failed,
                   aexc>>
    /\ UNCHANGED nonA

\* the end of finally: the exception goes on, or the call returns
FinallyDone ==
    /\ apc = "finally"
    /\ at > Len(FinallyOrder(akern))
    /\ apc' = IF aexc = "MemoryError" THEN "raised" ELSE "returned"
    /\ UNCHANGED <<akern, d1, d2, wild, at, aslot, top, slots, nextId, live,
                   freed, twice, badFree, failed, aexc>>
    /\ UNCHANGED nonA

NextAlloc ==
    \/ AllocCall
    \/ TopMalloc
    \/ TopDone
    \/ NullRaise
    \/ NullPass
    \/ RowMalloc
    \/ RowNext
    \/ RowsDone
    \/ FinallySlot
    \/ FinallyArray
    \/ FinallyDone

SpecAlloc == InitAlloc /\ [][NextAlloc]_vars

(***************************************************************************)
(* Properties of the raw buffers.                                          *)
(***************************************************************************)
\* C18: whichever malloc returns NULL, the call raises MemoryError, every
\* buffer that was allocated is freed exactly once before the call ends,
\* and free is never applied to a row-pointer slot that malloc never
\* assigned.
C18_FailureFreesAll ==
    /\ ~badFree
    /\ ~twice
    /\ apc # "crashed"
    /\ (apc \in {"raised", "returned"}) =>
           /\ live = {}
           /\ freed = 1..(nextId - 1)
           /\ failed => (apc = "raised" /\ aexc = "MemoryError")

(***************************************************************************)
(* Breadth-first search.  The Cython variants keep the visited marks and   *)
(* the queue in raw arrays of V entries indexed by vertex id with no       *)
(* bounds check.  A cell outside visited_array reads as bjunk until the    *)
(* search writes it; an access outside the arrays may end the process.     *)
(***************************************************************************)
Ids == 0..MaxVertex

RECURSIVE SeqsUpTo(_)
SeqsUpTo(n) ==
    IF n = 0 THEN {<<>>}
    ELSE SeqsUpTo(n - 1) \cup {Append(q, v) : q \in SeqsUpTo(n - 1), v \in Ids}

\* the entries of a set of ids, ascending
RECURSIVE Ascending(_)
Ascending(S) ==
    IF S = {} THEN <<>>
    ELSE LET least == CHOOSE v \in S : \A o \in S : v <= o
         IN  <<least>> \o Ascending(S \ {least})

\* adjacency lists over any set of keys
ListGraphs == UNION {[keys -> SeqsUpTo(MaxDeg)] : keys \in SUBSET Ids}

\* the rows of a square 0/1 adjacency matrix
MatrixGraphs ==
    UNION {[0..(V - 1) -> {Ascending(S) : S \in SUBSET (0..(V - 1))}] :
              V \in 0..MaxVertex}

\* -1 in C++, None in Cython
NoParent == IF bimpl = "cpp" THEN -1 ELSE "None"

\* V = len(graph), adj_matrix.shape[0]
NumKeys == Cardinality(DOMAIN graph)

\* the vertex id indexes visited_array inside its V cells
InArray(v) == bimpl = "cpp" \/ (0 <= v /\ v < NumKeys)

\* it->second, graph.get(u, [])
Neighbours(u) == IF u \in DOMAIN graph THEN graph[u] ELSE <<>>

\* the body of "for v in neighbors": st holds the locals of the search
Meet(st, u, v) ==
    LET seen == IF InArray(v) \/ v \in st.visited
                THEN v \in st.visited
                ELSE bjunk # 0
    IN  IF seen
        THEN [st EXCEPT !.oob = @ \/ ~InArray(v)]
        ELSE [visited |-> st.visited \cup {v},
              path |-> [o \in DOMAIN st.path \cup {v} |->
                           IF o = v THEN u ELSE st.path[o]],
              queue |-> Append(st.queue, v),
              tail |-> st.tail + 1,
              count |-> st.count + 1,
              oob |-> \/ st.oob
                      \/ ~InArray(v)
                      \/ (bimpl # "cpp" /\ ~(st.tail < NumKeys))]

\* for v in neighbors, from entry k on
RECURSIVE Scan(_, _, _, _)
Scan(st, u, nb, k) ==
    IF k > Len(nb) THEN st
    ELSE Scan(Meet(st, u, nb[k]), u, nb, k + 1)

InitBFS ==
    /\ bimpl \in {"cpp", "cy", "matrix"}
    /\ graph \in IF bimpl = "matrix" THEN MatrixGraphs ELSE ListGraphs
    /\ start_node \in Ids
    /\ bpc = "idle"
    /\ queue = <<>> /\ qtail = 0
    /\ visited = {} /\ path = <<>> /\ visited_count = 0
    /\ bjunk = 0 /\ bcrash = FALSE /\ boob = FALSE
    /\ MIdle
    /\ FIdle
    /\ NIdle
    /\ GIdle
    /\ AIdle
    /\ QIdle
    /\ SIdle
    /\ KIdle
    /\ EIdle
    /\ VIdle
    /\ TIdle
    /\ WIdle

\* start_node is not in the graph: return 0 and the empty path
BfsAbsent ==
    /\ bpc = "idle"
    /\ start_node \notin DOMAIN graph
    /\ visited_count' = 0
    /\ path' = <<>>
    /\ bpc' = "done"
    /\ UNCHANGED <<graph, start_node, bimpl, queue, qtail, visited, bjunk,
                   bcrash, boob>>
    /\ UNCHANGED nonB

\* mark and enqueue start_node; path[start_node] = no parent
BfsCall ==
    /\ bpc = "idle"
    /\ start_node \in DOMAIN graph
    /\ IF bimpl = "cpp"
       THEN bjunk' = 0 /\ bcrash' = FALSE
       ELSE bjunk' \in {0, 1} /\ bcrash' \in BOOLEAN
    /\ visited' = {start_node}
    /\ queue' = <<start_node>>
    /\ qtail' = 1
    /\ path' = [o \in {start_node} |-> NoParent]
    /\ visited_count' = 1
    /\ boob' = ~InArray(start_node)
    /\ bpc' = IF ~InArray(start_node) /\ bcrash' THEN "crashed" ELSE "loop"
    /\ UNCHANGED <<graph, start_node, bimpl>>
    /\ UNCHANGED nonB

\* one pass of the while loop: take u off the queue and scan its neighbours
BfsVisit ==
    /\ bpc = "loop"
    /\ queue # <<>>
    /\ LET u == Head(queue)
           st == Scan([visited |-> visited, path |-> path, queue |-> Tail(queue),
                       tail |-> qtail, count |-> visited_count, oob |-> boob],
                      u, Neighbours(u), 1)
       IN  /\ visited' = st.visited
           /\ path' = st.path
           /\ queue' = st.queue
           /\ qtail' = st.tail
           /\ visited_count' = st.count
           /\ boob' = st.oob
           /\ bpc' = IF st.oob /\ bcrash THEN "crashed" ELSE "loop"
    /\ UNCHANGED <<graph, start_node, bimpl, bjunk, bcrash>>
    /\ UNCHANGED nonB

\* the queue is empty: return (visited.size(), path), (visited_count, path)
BfsReturn ==
    /\ bpc = "loop"
    /\ queue = <<>>
    /\ visited_count' = IF bimpl = "cpp" THEN Cardinality(visited) ELSE visited_count
    /\ bpc' = "done"
    /\ UNCHANGED <<graph, start_node, bimpl, queue, qtail, visited, path, bjunk,
                   bcrash, boob>>
    /\ UNCHANGED nonB

NextBFS ==
    \/ BfsAbsent
    \/ BfsCall
    \/ BfsVisit
    \/ BfsReturn

SpecBFS == InitBFS /\ [][NextBFS]_vars

(***************************************************************************)
(* Properties of the search.                                               *)
(***************************************************************************)
\* the vertices one edge away from a vertex of S
Next1(S) == UNION {{Neighbours(u)[k] : k \in DOMAIN Neighbours(u)} : u \in S}

\* the vertices at distance at most d from start_node
RECURSIVE Within(_)
Within(d) ==
    IF d = 0 THEN {start_node}
    ELSE Within(d - 1) \cup Next1(Within(d - 1))

Reachable == Within(MaxVertex + 1)

\* the BFS level of a reachable vertex
Level(v) == CHOOSE d \in 0..(MaxVertex + 1) :
                v \in Within(d) /\ (d > 0 => v \notin Within(d - 1))

\* C19: for start_node in the graph the search returns the number of
\* reachable vertices and a path with one entry per reached vertex: no
\* parent for start_node, and for any other v a parent u with v in graph[u]
\* and u one level closer to the start.  For start_node not in the graph it
\* returns 0 and the empty path.
C19_BfsTree ==
    /\ bpc # "crashed"
    /\ (bpc = "done" /\ start_node \notin DOMAIN graph) =>
           (visited_count = 0 /\ path = <<>>)
    /\ (bpc = "done" /\ start_node \in DOMAIN graph) =>
           /\ visited_count = Cardinality(Reachable)
           /\ DOMAIN path = Reachable
           /\ path[start_node] = NoParent
           /\ \A v \in Reachable \ {start_node} :
                 /\ path[v] \in Reachable
                 /\ \E k \in DOMAIN Neighbours(path[v]) : Neighbours(path[v])[k] = v
                 /\ Level(path[v]) + 1 = Level(v)

(***************************************************************************)
(* Quicksort.  A vector is a function on 0..n-1.  The recursion of         *)
(* quicksort_recursive is followed with a stack of the calls still to      *)
(* make.                                                                   *)
(***************************************************************************)
Swapped(it, a, b) == [it EXCEPT ![a] = it[b], ![b] = it[a]]

\* the slip of comparing with < in the partition loop
RECURSIVE PartLoop_Strict(_, _, _, _, _, _)
PartLoop_Strict(it, i, j, high, pivot, used) ==
    IF j < high
    THEN IF it[j] < pivot
         THEN PartLoop_Strict(Swapped(it, i + 1, j), i + 1, j + 1, high, pivot,
                              used \cup {i + 1, j})
         ELSE PartLoop_Strict(it, i, j + 1, high, pivot, used \cup {j})
    ELSE [it |-> it, i |-> i, used |-> used]

\* for (j = low; j < high; j++) if (items[j] <= pivot) { i++; swap }
RECURSIVE PartLoop(_, _, _, _, _, _)
PartLoop(it, i, j, high, pivot, used) ==
    IF j < high
    THEN IF it[j] <= pivot
         THEN PartLoop(Swapped(it, i + 1, j), i + 1, j + 1, high, pivot,
                       used \cup {i + 1, j})
         ELSE PartLoop(it, i, j + 1, high, pivot, used \cup {j})
    ELSE [it |-> it, i |-> i, used |-> used]

\* partition(items, low, high): the vector after it, the index returned and
\* the indices it read or wrote
partition(it, low, high) ==
    LET pivot == it[high]
        l == PartLoop(it, low - 1, low, high, pivot, {high})
    IN  [low |-> low, high |-> high, pi |-> l.i + 1, before |-> it,
         after |-> Swapped(l.it, l.i + 1, high),
         used |-> l.used \cup {l.i + 1, high}]

Vectors == UNION {[0..(n - 1) -> 0..MaxItem] : n \in 0..MaxItems}

InitQs ==
    /\ arr \in Vectors
    /\ arr0 = arr
    /\ qimpl \in {"quicksort", "quicksort_inplace", "quicksort_cy"}
    /\ qpc = "idle"
    /\ items = <<>> /\ stack = <<>>
    /\ plast = NoPartition /\ pcalls = 0
    /\ qret = <<>>
    /\ MIdle
    /\ FIdle
    /\ NIdle
    /\ GIdle
    /\ AIdle
    /\ BIdle
    /\ SIdle
    /\ KIdle
    /\ EIdle
    /\ VIdle
    /\ TIdle
    /\ WIdle

\* the copy, and the first call quicksort_recursive(items, 0, n - 1) unless
\* the vector is empty
QsCall ==
    /\ qpc = "idle"
    /\ items' = arr
    /\ stack' = IF arr = <<>> THEN <<>>
                ELSE <<[low |-> 0, high |-> Cardinality(DOMAIN arr) - 1]>>
    /\ qpc' = "sort"
    /\ UNCHANGED <<arr, arr0, qimpl, plast, pcalls, qret>>
    /\ UNCHANGED nonQ

\* quicksort_recursive(items, low, high) with low < high: partition, then
\* the calls for the part before pi and the part after it
QsPartition ==
    /\ qpc = "sort"
    /\ stack # <<>>
    /\ Head(stack).low < Head(stack).high
    /\ LET low == Head(stack).low
           high == Head(stack).high
           r == partition(items, low, high)
       IN  /\ items' = r.after
           /\ arr' = IF qimpl = "quicksort_inplace" THEN r.after ELSE arr
           /\ plast' = r
           /\ stack' = <<[low |-> low, high |-> r.pi - 1],
                         [low |-> r.pi + 1, high |-> high]>> \o Tail(stack)
    /\ pcalls' = pcalls + 1
    /\ UNCHANGED <<arr0, qimpl, qpc, qret>>
    /\ UNCHANGED nonQ

\* quicksort_recursive(items, low, high) with low >= high: nothing to do
QsSkip ==
    /\ qpc = "sort"
    /\ stack # <<>>
    /\ ~(Head(stack).low < Head(stack).high)
    /\ stack' = Tail(stack)
    /\ UNCHANGED <<arr, arr0, qimpl, qpc, items, plast, pcalls, qret>>
    /\ UNCHANGED nonQ

\* return arr_copy (quicksort, quicksort_cy); quicksort_inplace returns
\* nothing
QsReturn ==
    /\ qpc = "sort"
    /\ stack = <<>>
    /\ qret' = IF qimpl = "quicksort_inplace" THEN <<>> ELSE items
    /\ qpc' = "done"
    /\ UNCHANGED <<arr, arr0, qimpl, items, stack, plast, pcalls>>
    /\ UNCHANGED nonQ

NextQs ==
    \/ QsCall
    \/ QsPartition
    \/ QsSkip
    \/ QsReturn

SpecQs == InitQs /\ [][NextQs]_vars

\* the sort is sequential code: a step that can be taken is taken
FairSpecQs == SpecQs /\ WF_vars(NextQs)

(***************************************************************************)
(* Properties of quicksort.                                                *)
(***************************************************************************)
Sorted(v) == \A a, b \in DOMAIN v : a < b => v[a] <= v[b]

Occurrences(v, e) == Cardinality({a \in DOMAIN v : v[a] = e})

Permutation(u, v) ==
    /\ DOMAIN u = DOMAIN v
    /\ \A e \in 0..MaxItem : Occurrences(u, e) = Occurrences(v, e)

\* the last call of partition did what a Lomuto partition does
PartitionOk ==
    plast # NoPartition =>
        /\ plast.low <= plast.pi /\ plast.pi <= plast.high
        /\ \A a \in plast.low..(plast.pi - 1) : plast.after[a] <= plast.after[plast.pi]
        /\ \A a \in (plast.pi + 1)..plast.high : plast.after[plast.pi] < plast.after[a]
        /\ plast.used \subseteq plast.low..plast.high
        /\ \A a \in DOMAIN plast.before :
              a \notin plast.low..plast.high => plast.after[a] = plast.before[a]
        /\ Permutation(plast.after, plast.before)

SortedResult ==
    /\ qimpl # "quicksort_inplace" => arr = arr0
    /\ (qpc = "done" /\ qimpl # "quicksort_inplace") =>
           (Sorted(qret) /\ Permutation(qret, arr0))
    /\ (qpc = "done" /\ qimpl = "quicksort_inplace") =>
           (Sorted(arr) /\ Permutation(arr, arr0))

\* C20: for every input vector quicksort terminates and returns a sorted
\* permutation of the input, the input left unchanged; quicksort_inplace
\* leaves its argument sorted and a permutation of what it held; every
\* partition(items, low, high) returns p in [low, high] with
\* items[low..p-1] <= items[p] < items[p+1..high] and uses no index outside
\* [low, high].
C20_QuicksortSorts ==
    /\ [](SortedResult /\ PartitionOk)
    /\ <>(qpc = "done")

C20_Witness ==
    /\ qpc = "done" /\ qimpl = "quicksort"
    /\ Cardinality(DOMAIN arr0) = 4
    /\ arr0[0] > arr0[1] /\ arr0[1] = arr0[3] /\ arr0[2] < arr0[1]
    /\ arr = arr0
    /\ Sorted(qret) /\ Permutation(qret, arr0) /\ qret # arr0
    /\ plast # NoPartition /\ pcalls >= 2

C20_WitnessInplace ==
    /\ qpc = "done" /\ qimpl = "quicksort_inplace"
    /\ ~Sorted(arr0) /\ Sorted(arr) /\ Permutation(arr, arr0)

(***************************************************************************)
(* sieve_of_eratosthenes: sieve_swig.cpp (embedded in matmul_swig.i) and   *)
(* regex_cy.pyx.  limit, p, i and multiple are C ints; the model keeps     *)
(* their width, scaled to IntBits bits.  An int expression that leaves the *)
(* range is undefined behaviour; the builds at hand wrap it, and the model *)
(* records that it happened in sovf.  An access outside the buffer either  *)
(* ends the process or goes unnoticed, a read giving sjunk; which of the   *)
(* two is settled once for the call.                                       *)
(***************************************************************************)
RECURSIVE Pow2(_)
Pow2(e) == IF e = 0 THEN 1 ELSE 2 * Pow2(e - 1)

IntMax == Pow2(IntBits - 1) - 1
IntMin == -Pow2(IntBits - 1)

\* the value an int expression takes in the builds at hand
Wrap(v) == ((v - IntMin) % Pow2(IntBits)) + IntMin

Overflows(v) == v < IntMin \/ v > IntMax

SieveImpls == {"cpp", "cy"}

InBuffer(i) == i \in DOMAIN is_prime

InitSieve ==
    /\ limit \in -1..IntMax
    /\ simpl \in SieveImpls
    /\ spc = "idle"
    /\ is_prime = <<>> /\ sp = 0 /\ si = 0 /\ sfirst = 0 /\ primes = <<>>
    /\ sjunk \in BOOLEAN /\ scrash \in BOOLEAN
    /\ soob = FALSE /\ sovf = FALSE
    /\ MIdle
    /\ FIdle
    /\ NIdle
    /\ GIdle
    /\ AIdle
    /\ BIdle
    /\ QIdle
    /\ KIdle
    /\ EIdle
    /\ VIdle
    /\ TIdle
    /\ WIdle
\* if (limit < 2) return primes;          if limit < 2: return []
SieveSmall ==
    /\ spc = "idle" /\ limit < 2
    /\ primes' = <<>>
    /\ spc' = "done"
    /\ UNCHANGED <<limit, simpl, is_prime, sp, si, sfirst, sjunk, scrash, soob, sovf>>
    /\ UNCHANGED nonS

\* new bool[limit + 1] / malloc((limit + 1) * sizeof(unsigned char)), memset,
\* is_prime[0] = is_prime[1] = false, p = 2.  A negative limit + 1 is a size
\* no allocation satisfies: std::bad_array_new_length, MemoryError.
SieveAlloc ==
    /\ spc = "idle" /\ limit >= 2
    /\ sovf' = Overflows(limit + 1)
    /\ IF Wrap(limit + 1) < 0
       THEN /\ spc' = "raised"
            /\ UNCHANGED <<is_prime, sp>>
       ELSE /\ is_prime' = [i \in 0..(Wrap(limit + 1) - 1) |-> i >= 2]
            /\ sp' = 2
            /\ spc' = "outer"
    /\ UNCHANGED <<limit, simpl, si, sfirst, primes, sjunk, scrash, soob>>
    /\ UNCHANGED nonS

\* the first multiple the marking loop clears: int i = p * p / multiple = p * p
FirstMultiple(p) == Wrap(p * p)

\* while (p * p <= limit) { if (is_prime[p]) { for (int i = p * p; ...
OuterTest ==
    /\ spc = "outer"
    /\ sovf' = (sovf \/ Overflows(sp * sp))
    /\ IF Wrap(sp * sp) <= limit
       THEN IF ~InBuffer(sp) /\ scrash
            THEN /\ spc' = "crashed"
                 /\ soob' = TRUE
                 /\ UNCHANGED <<si, sfirst>>
            ELSE /\ soob' = (soob \/ ~InBuffer(sp))
                 /\ IF (IF InBuffer(sp) THEN is_prime[sp] ELSE sjunk)
                    THEN /\ si' = FirstMultiple(sp)
                         /\ sfirst' = FirstMultiple(sp)
                         /\ spc' = "mark"
                    ELSE /\ spc' = "next"
                         /\ UNCHANGED <<si, sfirst>>
       ELSE /\ spc' = "collect"
            /\ si' = 2
            /\ UNCHANGED <<sfirst, soob>>
    /\ UNCHANGED <<limit, simpl, is_prime, sp, primes, sjunk, scrash>>
    /\ UNCHANGED nonS

\* is_prime[i] = false; i += p          is_prime[multiple] = 0; multiple += p
Mark ==
    /\ spc = "mark" /\ si <= limit
    /\ IF ~InBuffer(si) /\ scrash
       THEN /\ spc' = "crashed"
            /\ soob' = TRUE
            /\ UNCHANGED <<is_prime, si, sovf>>
       ELSE /\ soob' = (soob \/ ~InBuffer(si))
            /\ is_prime' = IF InBuffer(si) THEN [is_prime EXCEPT ![si] = FALSE]
                           ELSE is_prime
            /\ si' = Wrap(si + sp)
            /\ sovf' = (sovf \/ Overflows(si + sp))
            /\ spc' = "mark"
    /\ UNCHANGED <<limit, simpl, sp, sfirst, primes, sjunk, scrash>>
    /\ UNCHANGED nonS

\* i <= limit fails: the marking loop is over
MarkExit ==
    /\ spc = "mark" /\ si > limit
    /\ spc' = "next"
    /\ UNCHANGED <<limit, simpl, is_prime, sp, si, sfirst, primes, sjunk, scrash,
                   soob, sovf>>
    /\ UNCHANGED nonS

\* p++                                   p += 1
OuterNext ==
    /\ spc = "next"
    /\ sp' = Wrap(sp + 1)
    /\ sovf' = (sovf \/ Overflows(sp + 1))
    /\ spc' = "outer"
    /\ UNCHANGED <<limit, simpl, is_prime, si, sfirst, primes, sjunk, scrash, soob>>
    /\ UNCHANGED nonS

\* for (int i = 2; i <= limit; i++) if (is_prime[i]) primes.push_back(i);
Collect ==
    /\ spc = "collect" /\ si <= limit
    /\ primes' = IF is_prime[si] THEN Append(primes, si) ELSE primes
    /\ si' = si + 1
    /\ UNCHANGED <<limit, simpl, spc, is_prime, sp, sfirst, sjunk, scrash, soob, sovf>>
    /\ UNCHANGED nonS

\* delete[] is_prime; return primes;     return primes, finally: free(is_prime)
SieveReturn ==
    /\ spc = "collect" /\ si > limit
    /\ spc' = "done"
    /\ UNCHANGED <<limit, simpl, is_prime, sp, si, sfirst, primes, sjunk, scrash,
                   soob, sovf>>
    /\ UNCHANGED nonS

NextSieve ==
    \/ SieveSmall
    \/ SieveAlloc
    \/ OuterTest
    \/ Mark
    \/ MarkExit
    \/ OuterNext
    \/ Collect
    \/ SieveReturn

SpecSieve == InitSieve /\ [][NextSieve]_vars

IsPrimeNumber(n) == n >= 2 /\ \A d \in 2..(n - 1) : n % d # 0

RECURSIVE PrimesUpTo(_)
PrimesUpTo(n) ==
    IF n < 2 THEN <<>>
    ELSE IF IsPrimeNumber(n) THEN Append(PrimesUpTo(n - 1), n)
    ELSE PrimesUpTo(n - 1)

\* C21: for every limit the call returns the primes of 2..limit in increasing
\* order, each once, and the empty list for limit < 2: it neither raises nor ends
\* the process.  The marking loop runs for a prime p with p * p <= limit only,
\* starts at p * p, clears multiples of p only, and no prime of 2..limit is ever
\* cleared.
C21_SieveReturnsPrimes ==
    /\ spc \notin {"raised", "crashed"}
    /\ spc = "done" => primes = PrimesUpTo(limit)
    /\ spc = "mark" =>
          /\ IsPrimeNumber(sp) /\ sp * sp <= limit
          /\ sfirst = sp * sp
          /\ si >= sfirst /\ (si - sfirst) % sp = 0
    /\ spc \in {"outer", "next", "mark", "collect", "done"} /\ limit >= 2 =>
          \A q \in 2..limit : IsPrimeNumber(q) => (InBuffer(q) /\ is_prime[q])

(***************************************************************************)
(* kmeans_iteration (kmeans_swig.cpp) and kmeans_iteration_cy.  A DataSet  *)
(* is a function from 0..n-1 to points, a point a sequence of D            *)
(* coordinates; all points and centroids of a call have the same D >= 1.   *)
(* Coordinates are integers; a quotient of doubles is rounded down to the  *)
(* grid, std::sqrt to the grid of 1 / DistScale.                           *)
(***************************************************************************)
KmImpls == {"cpp", "cy"}

Points(D) == [1..D -> 0..MaxCoord]

DataSets(D, most) == UNION {[0..(n - 1) -> Points(D)] : n \in 0..most}

KN == Cardinality(DOMAIN data)
KK == Cardinality(DOMAIN centroids)
KD == Len(data[0])

RECURSIVE SumSq(_, _, _)
SumSq(p1, p2, d) ==
    IF d = 0 THEN 0
    ELSE SumSq(p1, p2, d - 1) + (p1[d] - p2[d]) * (p1[d] - p2[d])

\* the largest r of lo..hi with r * r <= v
RECURSIVE RootIn(_, _, _)
RootIn(v, lo, hi) ==
    IF lo = hi THEN lo
    ELSE LET mid == (lo + hi + 1) \div 2
         IN  IF mid * mid <= v THEN RootIn(v, mid, hi) ELSE RootIn(v, lo, mid - 1)

\* std::sqrt(distance_sq)
euclidean_distance(p1, p2) ==
    LET v == SumSq(p1, p2, Len(p1)) * DistScale * DistScale
    IN  RootIn(v, 0, v)

\* std::numeric_limits<double>::max(), DBL_MAX
DblMax == Pow2(30)

\* the slip of letting a later centroid at the same distance win
Closer_OrEqual(dist, min_dist) == dist <= min_dist
Closer(dist, min_dist) == dist < min_dist

\* the k loop over centroids k..K-1, from the running min_dist and closest_k
RECURSIVE ClosestFrom(_, _, _, _)
ClosestFrom(point, k, min_dist, closest_k) ==
    IF k >= KK THEN closest_k
    ELSE LET dist == euclidean_distance(point, centroids[k])
         IN  IF Closer(dist, min_dist)
             THEN ClosestFrom(point, k + 1, dist, k)
             ELSE ClosestFrom(point, k + 1, min_dist, closest_k)

InitKm ==
    /\ \E D \in 1..MaxDim :
          /\ data \in DataSets(D, MaxPoints)
          /\ centroids \in DataSets(D, MaxCentroids)
    /\ kimpl \in KmImpls
    /\ kpc = "idle"
    /\ ki = 0 /\ assignments = <<>> /\ cluster_counts = <<>>
    /\ cluster_sums = <<>> /\ new_centroids = <<>>
    /\ MIdle
    /\ FIdle
    /\ NIdle
    /\ GIdle
    /\ AIdle
    /\ BIdle
    /\ QIdle
    /\ SIdle
    /\ EIdle
    /\ VIdle
    /\ TIdle
    /\ WIdle

\* if (N == 0 || K == 0) return centroids;
KmTrivial ==
    /\ kpc = "idle" /\ (KN = 0 \/ KK = 0)
    /\ new_centroids' = centroids
    /\ kpc' = "done"
    /\ UNCHANGED <<data, centroids, kimpl, ki, assignments, cluster_counts, cluster_sums>>
    /\ UNCHANGED nonK

\* assignments(N), cluster_counts(K, 0), cluster_sums(K, Point(D, 0.0))
KmStart ==
    /\ kpc = "idle" /\ KN # 0 /\ KK # 0
    /\ assignments' = [i \in 0..(KN - 1) |-> 0]
    /\ cluster_counts' = [k \in 0..(KK - 1) |-> 0]
    /\ cluster_sums' = [k \in 0..(KK - 1) |-> [d \in 1..KD |-> 0]]
    /\ ki' = 0
    /\ kpc' = "assign"
    /\ UNCHANGED <<data, centroids, kimpl, new_centroids>>
    /\ UNCHANGED nonK

\* one pass of the assignment loop: the k loop, then the counts and the sums
KmAssign ==
    /\ kpc = "assign" /\ ki < KN
    /\ LET closest_k == ClosestFrom(data[ki], 0, DblMax, 0)
       IN  /\ assignments' = [assignments EXCEPT ![ki] = closest_k]
           /\ cluster_counts' = [cluster_counts EXCEPT ![closest_k] = @ + 1]
           /\ cluster_sums' = [cluster_sums EXCEPT ![closest_k] =
                                  [d \in 1..KD |-> @[d] + data[ki][d]]]
    /\ ki' = ki + 1
    /\ UNCHANGED <<data, centroids, kimpl, kpc, new_centroids>>
    /\ UNCHANGED nonK

\* i < N fails: DataSet new_centroids; new_centroids.reserve(K)
KmAssignExit ==
    /\ kpc = "assign" /\ ki >= KN
    /\ new_centroids' = <<>>
    /\ ki' = 0
    /\ kpc' = "update"
    /\ UNCHANGED <<data, centroids, kimpl, assignments, cluster_counts, cluster_sums>>
    /\ UNCHANGED nonK

\* cluster_sums[k][d] / cluster_counts[k]
Mean(k) == [d \in 1..KD |-> cluster_sums[k][d] \div cluster_counts[k]]

\* if (cluster_counts[k] == 0) new_centroids.push_back(centroids[k]);
KmKeep ==
    /\ kpc = "update" /\ ki < KK /\ cluster_counts[ki] = 0
    /\ new_centroids' = [k \in 0..ki |-> IF k = ki THEN centroids[ki]
                                         ELSE new_centroids[k]]
    /\ ki' = ki + 1
    /\ UNCHANGED <<data, centroids, kimpl, kpc, assignments, cluster_counts, cluster_sums>>
    /\ UNCHANGED nonK

\* else: new_centroids.push_back(new_centroid), the mean
KmMean ==
    /\ kpc = "update" /\ ki < KK /\ cluster_counts[ki] # 0
    /\ new_centroids' = [k \in 0..ki |-> IF k = ki THEN Mean(ki)
                                         ELSE new_centroids[k]]
    /\ ki' = ki + 1
    /\ UNCHANGED <<data, centroids, kimpl, kpc, assignments, cluster_counts, cluster_sums>>
    /\ UNCHANGED nonK

\* return new_centroids;
KmReturn ==
    /\ kpc = "update" /\ ki >= KK
    /\ kpc' = "done"
    /\ UNCHANGED <<data, centroids, kimpl, ki, assignments, cluster_counts,
                   cluster_sums, new_centroids>>
    /\ UNCHANGED nonK

NextKm ==
    \/ KmTrivial
    \/ KmStart
    \/ KmAssign
    \/ KmAssignExit
    \/ KmKeep
    \/ KmMean
    \/ KmReturn

SpecKm == InitKm /\ [][NextKm]_vars

\* the squared distance of point i to centroid k
DistSqTo(i, k) == SumSq(data[i], centroids[k], Len(data[i]))

\* centroid k is nearest to point i, and the first such
NearestFirst(i, k) ==
    /\ \A j \in DOMAIN centroids : DistSqTo(i, k) <= DistSqTo(i, j)
    /\ \A j \in DOMAIN centroids : j < k => DistSqTo(i, k) < DistSqTo(i, j)

Members(k) == {i \in DOMAIN data : assignments[i] = k}

RECURSIVE CoordSum(_, _)
CoordSum(S, d) ==
    IF S = {} THEN 0
    ELSE LET i == CHOOSE e \in S : TRUE
         IN  data[i][d] + CoordSum(S \ {i}, d)

RECURSIVE CountSum(_)
CountSum(k) == IF k < 0 THEN 0 ELSE cluster_counts[k] + CountSum(k - 1)

\* v is the quotient total / n on the grid
MeanOnGrid(v, total, n) == v * n <= total /\ total < (v + 1) * n

\* C22: with N >= 1 points and K >= 1 centroids the call returns K centroids in
\* the order of the input; every point went to the first of its nearest
\* centroids; the cluster counts are the clusters' sizes and sum to N; a cluster
\* without points keeps its input centroid and every other centroid is the
\* coordinate-wise mean of the cluster's points.  With N = 0 or K = 0 the input
\* centroids come back unchanged.
C22_KmeansIteration ==
    kpc = "done" =>
        IF KN = 0 \/ KK = 0
        THEN new_centroids = centroids
        ELSE /\ DOMAIN new_centroids = DOMAIN centroids
             /\ \A i \in DOMAIN data :
                   /\ assignments[i] \in DOMAIN centroids
                   /\ NearestFirst(i, assignments[i])
             /\ \A k \in DOMAIN centroids :
                   cluster_counts[k] = Cardinality(Members(k))
             /\ CountSum(KK - 1) = KN
             /\ \A k \in DOMAIN centroids :
                   IF Members(k) = {}
                   THEN new_centroids[k] = centroids[k]
                   ELSE /\ DOMAIN new_centroids[k] = 1..KD
                        /\ \A d \in 1..KD :
                              MeanOnGrid(new_centroids[k][d],
                                         CoordSum(Members(k), d),
                                         Cardinality(Members(k)))

\* a point halfway between two different centroids went to the first, the second
\* cluster stayed empty and kept its centroid, the first moved to a mean
C22_Witness ==
    /\ kpc = "done" /\ KN = 2 /\ KK = 2
    /\ centroids[0] # centroids[1]
    /\ \E i \in DOMAIN data : DistSqTo(i, 0) = DistSqTo(i, 1)
    /\ cluster_counts[0] = 2 /\ cluster_counts[1] = 0
    /\ new_centroids[1] = centroids[1]
    /\ new_centroids[0] # centroids[0]
    /\ data[0] # data[1]

\* the call with no points or no centroids has returned its argument
C22_WitnessEmpty ==
    /\ kpc = "done" /\ KN = 0 /\ KK = 2 /\ new_centroids = centroids

(***************************************************************************)
(* create_sparse_graph (bfs_swig.cpp) and create_sparse_graph_cy.  V, E    *)
(* and max_edges are C ints of IntBits bits.  A neighbour list is kept as  *)
(* the number of times each vertex occurs in it: the order of a list is    *)
(* the iteration order of the edge set, which no property here reads.      *)
(***************************************************************************)
CsgImpls == {"cpp", "cy"}

\* a / b of two C ints: the quotient truncated toward zero
TruncDiv(a, b) == IF a >= 0 THEN a \div b ELSE -((-a) \div b)

\* int max_edges = V * (V - 1) / 2;    max_edges = V * (V - 1) // 2
MaxEdges(V) ==
    IF cimpl = "cpp" THEN TruncDiv(Wrap(V * (V - 1)), 2)
    ELSE Wrap(V * (V - 1)) \div 2

InitCsg ==
    /\ cV \in -1..MaxV
    /\ cE0 \in -1..MaxE
    /\ cE = cE0
    /\ directed \in BOOLEAN
    /\ cimpl \in CsgImpls
    /\ cpc = "idle"
    /\ max_edges = 0 /\ edges = {} /\ adj = <<>>
    /\ MIdle
    /\ FIdle
    /\ NIdle
    /\ GIdle
    /\ AIdle
    /\ BIdle
    /\ QIdle
    /\ SIdle
    /\ KIdle
    /\ VIdle
    /\ TIdle
    /\ WIdle

\* if (V <= 0) return adj;
CsgEmpty ==
    /\ cpc = "idle" /\ cV <= 0
    /\ adj' = <<>>
    /\ cpc' = "done"
    /\ UNCHANGED <<cV, cE0, cE, directed, cimpl, max_edges, edges>>
    /\ UNCHANGED nonE

\* adj[i] = {} for every i, max_edges, if (E > max_edges) E = max_edges
CsgStart ==
    /\ cpc = "idle" /\ cV > 0
    /\ max_edges' = MaxEdges(cV)
    /\ cE' = IF cE > MaxEdges(cV) THEN MaxEdges(cV) ELSE cE
    /\ edges' = {}
    /\ adj' = [i \in 0..(cV - 1) |-> [j \in 0..(cV - 1) |-> 0]]
    /\ cpc' = "draw"
    /\ UNCHANGED <<cV, cE0, directed, cimpl>>
    /\ UNCHANGED nonE

\* one pass of while (edges.size() < E): u == v draws again, a pair already in
\* the set leaves the set as it is
CsgDraw ==
    /\ cpc = "draw" /\ Cardinality(edges) < cE
    /\ \E u, v \in 0..(cV - 1) :
          IF u = v THEN UNCHANGED edges
          ELSE edges' = edges \cup {IF u > v THEN <<v, u>> ELSE <<u, v>>}
    /\ UNCHANGED <<cV, cE0, cE, directed, cimpl, cpc, max_edges, adj>>
    /\ UNCHANGED nonE

\* the populating loop and the return
CsgPopulate ==
    /\ cpc = "draw" /\ Cardinality(edges) >= cE
    /\ adj' = [i \in 0..(cV - 1) |-> [j \in 0..(cV - 1) |->
                  (IF <<i, j>> \in edges THEN 1 ELSE 0)
                  + (IF ~directed /\ <<j, i>> \in edges THEN 1 ELSE 0)]]
    /\ cpc' = "done"
    /\ UNCHANGED <<cV, cE0, cE, directed, cimpl, max_edges, edges>>
    /\ UNCHANGED nonE

NextCsg ==
    \/ CsgEmpty
    \/ CsgStart
    \/ CsgDraw
    \/ CsgPopulate

SpecCsg == InitCsg /\ [][NextCsg]_vars

\* the draws are fair: a pass of the loop that adds a pair is not put off forever
FairSpecCsg == SpecCsg /\ WF_vars(NextCsg)

\* the pairs {u, v} joined by the returned graph
Joined == {e \in (DOMAIN adj) \X (DOMAIN adj) :
              e[1] < e[2] /\ (adj[e[1]][e[2]] > 0 \/ adj[e[2]][e[1]] > 0)}

Wanted == Min(IF cE0 > 0 THEN cE0 ELSE 0, (cV * (cV - 1)) \div 2)

GraphOk ==
    IF cV <= 0 THEN adj = <<>>
    ELSE /\ DOMAIN adj = 0..(cV - 1)
         /\ Cardinality(Joined) = Wanted
         /\ \A u \in DOMAIN adj : adj[u][u] = 0
         /\ \A u, v \in DOMAIN adj : adj[u][v] <= 1
         /\ ~directed => \A u, v \in DOMAIN adj : adj[u][v] = adj[v][u]
         /\ directed => \A u, v \in DOMAIN adj : adj[u][v] > 0 => u < v

\* C23: under fair draws the call returns, and what it returns has the keys
\* 0..V-1 and exactly min(max(E, 0), V * (V - 1) / 2) edges, none a self-loop,
\* none twice; symmetric if undirected, every edge from the lower to the higher
\* vertex if directed; the empty graph for V <= 0.
C23_SparseGraph ==
    /\ [](cpc = "done" => GraphOk)
    /\ <>(cpc = "done")

(***************************************************************************)
(* convolution_1d, convolution_2d (conv_swig.cpp) and convolution_1d_cy,   *)
(* convolution_2d_cy (conv_cy.pyx).  A vector of n doubles is a function   *)
(* on 0..n-1, a matrix a function from rows to such vectors; the rows of   *)
(* an image have one length and a kernel of convolution_2d is square.      *)
(* A read outside the padded buffer is undefined: the call ends the        *)
(* process or carries on with whatever the cell holds.                     *)
(***************************************************************************)
Conv1 == {"convolution_1d", "convolution_1d_cy"}
Conv2 == {"convolution_2d", "convolution_2d_cy"}

Samples == 0..MaxSample

Vec(n) == [0..(n - 1) -> Samples]
Mat(m, n) == [0..(m - 1) -> Vec(n)]

VLen(v) == Cardinality(DOMAIN v)

\* image[0].size()
VCols == VLen(vin[0])

\* what the products of one output element can add up to
MaxSum == MaxSample * MaxSample * (IF vimpl \in Conv1 THEN VLen(vker)
                                   ELSE VLen(vker) * VLen(vker))

\* the slip of padding an even kernel like the next smaller odd one
PadLen_RoundedDown(kernel_len) == IF kernel_len = 0 THEN 0 ELSE (kernel_len - 1) \div 2
PadLen(kernel_len) == kernel_len \div 2

\* padded_data: data_len + 2 * pad_len cells, zero but for the copy of data
Padded1 ==
    LET pad_len == PadLen(VLen(vker))
        data_len == VLen(vin)
    IN  [i \in 0..(data_len + 2 * pad_len - 1) |->
            IF pad_len <= i /\ i < pad_len + data_len THEN vin[i - pad_len] ELSE 0]

\* padded_image: rows + 2 * pad by cols + 2 * pad cells
Padded2 ==
    LET pad == PadLen(VLen(vker))
        rows == VLen(vin)
    IN  [i \in 0..(rows + 2 * pad - 1) |-> [j \in 0..(VCols + 2 * pad - 1) |->
            IF pad <= i /\ i < pad + rows /\ pad <= j /\ j < pad + VCols
            THEN vin[i - pad][j - pad] ELSE 0]]

InPadded1(i) == i \in DOMAIN padded
InPadded2(i, j) == i \in DOMAIN padded /\ j \in DOMAIN padded[i]

\* sum_val after the taps k..kernel_len-1, all reads being inside
RECURSIVE SumVal1(_, _)
SumVal1(i, k) ==
    IF k >= VLen(vker) THEN 0
    ELSE padded[i + k] * vker[k] + SumVal1(i, k + 1)

RECURSIVE SumVal2(_, _, _)
SumVal2(r, c, n) ==
    IF n >= VLen(vker) * VLen(vker) THEN 0
    ELSE LET kr == n \div VLen(vker)
             kc == n % VLen(vker)
         IN  padded[r + kr][c + kc] * vker[kr][kc] + SumVal2(r, c, n + 1)

InitConv ==
    /\ vimpl \in Conv1 \cup Conv2
    /\ IF vimpl \in Conv1
       THEN /\ \E n \in 0..MaxDataLen : vin \in Vec(n)
            /\ \E n \in 0..MaxKernelLen : vker \in Vec(n)
       ELSE /\ \E m \in 0..MaxSide : \E n \in 0..MaxSide : vin \in Mat(m, n)
            /\ \E n \in 0..MaxKSize : vker \in Mat(n, n)
    /\ vpc = "idle"
    /\ padded = <<>> /\ vr = 0 /\ vc = 0 /\ vout = <<>> /\ voob = FALSE
    /\ MIdle
    /\ FIdle
    /\ NIdle
    /\ GIdle
    /\ AIdle
    /\ BIdle
    /\ QIdle
    /\ SIdle
    /\ KIdle
    /\ EIdle
    /\ TIdle
    /\ WIdle

\* convolution_1d: if (data_len == 0 || kernel_len == 0) return output;
Conv1Trivial ==
    /\ vpc = "idle" /\ vimpl = "convolution_1d"
    /\ (VLen(vin) = 0 \/ VLen(vker) = 0)
    /\ vout' = [i \in 0..(VLen(vin) - 1) |-> 0]
    /\ vpc' = "done"
    /\ UNCHANGED <<vin, vker, vimpl, padded, vr, vc, voob>>
    /\ UNCHANGED nonV

\* output of data_len zeros, padded_data filled
Conv1Pad ==
    /\ vpc = "idle" /\ vimpl \in Conv1
    /\ vimpl = "convolution_1d" => (VLen(vin) # 0 /\ VLen(vker) # 0)
    /\ vout' = [i \in 0..(VLen(vin) - 1) |-> 0]
    /\ padded' = Padded1
    /\ vr' = 0
    /\ vpc' = "conv"
    /\ UNCHANGED <<vin, vker, vimpl, vc, voob>>
    /\ UNCHANGED nonV

\* one pass of the i loop: the k loop and output[i] = sum_val
Conv1Step ==
    /\ vpc = "conv" /\ vimpl \in Conv1 /\ vr < VLen(vin)
    /\ IF \A k \in DOMAIN vker : InPadded1(vr + k)
       THEN /\ vout' = [vout EXCEPT ![vr] = SumVal1(vr, 0)]
            /\ vr' = vr + 1
            /\ UNCHANGED <<vpc, voob>>
       ELSE /\ voob' = TRUE
            /\ \/ /\ vpc' = "crashed"
                  /\ UNCHANGED <<vout, vr>>
               \/ /\ \E s \in 0..MaxSum : vout' = [vout EXCEPT ![vr] = s]
                  /\ vr' = vr + 1
                  /\ UNCHANGED vpc
    /\ UNCHANGED <<vin, vker, vimpl, padded, vc>>
    /\ UNCHANGED nonV

\* return output;
Conv1Return ==
    /\ vpc = "conv" /\ vimpl \in Conv1 /\ vr >= VLen(vin)
    /\ vpc' = "done"
    /\ UNCHANGED <<vin, vker, vimpl, padded, vr, vc, vout, voob>>
    /\ UNCHANGED nonV

\* if (rows == 0) return Matrix2D();          if rows == 0: return []
Conv2NoRows ==
    /\ vpc = "idle" /\ vimpl \in Conv2 /\ VLen(vin) = 0
    /\ vout' = <<>>
    /\ vpc' = "done"
    /\ UNCHANGED <<vin, vker, vimpl, padded, vr, vc, voob>>
    /\ UNCHANGED nonV

\* convolution_2d: if (k_size == 0) return Matrix2D(rows, Vector1D(cols, 0.0));
Conv2NoKernel ==
    /\ vpc = "idle" /\ vimpl = "convolution_2d"
    /\ VLen(vin) # 0 /\ VLen(vker) = 0
    /\ vout' = [r \in 0..(VLen(vin) - 1) |-> [c \in 0..(VCols - 1) |-> 0]]
    /\ vpc' = "done"
    /\ UNCHANGED <<vin, vker, vimpl, padded, vr, vc, voob>>
    /\ UNCHANGED nonV

\* output of rows by cols zeros, padded_image filled
Conv2Pad ==
    /\ vpc = "idle" /\ vimpl \in Conv2 /\ VLen(vin) # 0
    /\ vimpl = "convolution_2d" => VLen(vker) # 0
    /\ vout' = [r \in 0..(VLen(vin) - 1) |-> [c \in 0..(VCols - 1) |-> 0]]
    /\ padded' = Padded2
    /\ vr' = 0 /\ vc' = 0
    /\ vpc' = "conv"
    /\ UNCHANGED <<vin, vker, vimpl, voob>>
    /\ UNCHANGED nonV

\* one pass of the c loop: the kr and kc loops and output[r][c] = sum_val
Conv2Step ==
    /\ vpc = "conv" /\ vimpl \in Conv2 /\ vr < VLen(vin) /\ vc < VCols
    /\ IF \A kr, kc \in DOMAIN vker : InPadded2(vr + kr, vc + kc)
       THEN /\ vout' = [vout EXCEPT ![vr][vc] = SumVal2(vr, vc, 0)]
            /\ vc' = vc + 1
            /\ UNCHANGED <<vpc, voob>>
       ELSE /\ voob' = TRUE
            /\ \/ /\ vpc' = "crashed"
                  /\ UNCHANGED <<vout, vc>>
               \/ /\ \E s \in 0..MaxSum : vout' = [vout EXCEPT ![vr][vc] = s]
                  /\ vc' = vc + 1
                  /\ UNCHANGED vpc
    /\ UNCHANGED <<vin, vker, vimpl, padded, vr>>
    /\ UNCHANGED nonV

\* c < cols fails: the next row
Conv2NextRow ==
    /\ vpc = "conv" /\ vimpl \in Conv2 /\ vr < VLen(vin) /\ vc >= VCols
    /\ vr' = vr + 1
    /\ vc' = 0
    /\ UNCHANGED <<vin, vker, vimpl, vpc, padded, vout, voob>>
    /\ UNCHANGED nonV

\* return output;                             return result
Conv2Return ==
    /\ vpc = "conv" /\ vimpl \in Conv2 /\ vr >= VLen(vin)
    /\ vpc' = "done"
    /\ UNCHANGED <<vin, vker, vimpl, padded, vr, vc, vout, voob>>
    /\ UNCHANGED nonV

NextConv ==
    \/ Conv1Trivial
    \/ Conv1Pad
    \/ Conv1Step
    \/ Conv1Return
    \/ Conv2NoRows
    \/ Conv2NoKernel
    \/ Conv2Pad
    \/ Conv2Step
    \/ Conv2NextRow
    \/ Conv2Return

SpecConv == InitConv /\ [][NextConv]_vars

\* floor(K / 2)
HalfKernel == CHOOSE h \in 0..VLen(vker) : 2 * h <= VLen(vker) /\ VLen(vker) < 2 * h + 2

\* the input surrounded by HalfKernel zeros on each side
Surrounded1(i) ==
    IF HalfKernel <= i /\ i < HalfKernel + VLen(vin) THEN vin[i - HalfKernel] ELSE 0

Surrounded2(i, j) ==
    IF /\ HalfKernel <= i /\ i < HalfKernel + VLen(vin)
       /\ HalfKernel <= j /\ j < HalfKernel + VCols
    THEN vin[i - HalfKernel][j - HalfKernel] ELSE 0

RECURSIVE Dot1(_, _)
Dot1(i, S) ==
    IF S = {} THEN 0
    ELSE LET k == CHOOSE e \in S : TRUE
         IN  Surrounded1(i + k) * vker[k] + Dot1(i, S \ {k})

RECURSIVE Dot2(_, _, _)
Dot2(r, c, S) ==
    IF S = {} THEN 0
    ELSE LET e == CHOOSE f \in S : TRUE
         IN  Surrounded2(r + e[1], c + e[2]) * vker[e[1]][e[2]] + Dot2(r, c, S \ {e})

\* C24: the padded buffer is the input with floor(K / 2) zeros on each side; for
\* every kernel side K >= 1, odd or even, every index i + k (r + kr, c + kc) the
\* loops read lies inside it; the output has the shape of the input and
\* output[i] is the sum over k of padded[i + k] * kernel[k]; an empty kernel
\* gives zeros of the input's shape.
C24_SamePadding ==
    /\ ~voob /\ vpc # "crashed"
    /\ vpc = "conv" /\ vimpl \in Conv1 =>
          /\ DOMAIN padded = 0..(VLen(vin) + 2 * HalfKernel - 1)
          /\ \A i \in DOMAIN padded : padded[i] = Surrounded1(i)
          /\ \A i \in DOMAIN vin : \A k \in DOMAIN vker : InPadded1(i + k)
    /\ vpc = "conv" /\ vimpl \in Conv2 =>
          /\ DOMAIN padded = 0..(VLen(vin) + 2 * HalfKernel - 1)
          /\ \A i \in DOMAIN padded :
                /\ DOMAIN padded[i] = 0..(VCols + 2 * HalfKernel - 1)
                /\ \A j \in DOMAIN padded[i] : padded[i][j] = Surrounded2(i, j)
          /\ \A r \in DOMAIN vin : \A c \in DOMAIN vin[r] :
                \A kr, kc \in DOMAIN vker : InPadded2(r + kr, c + kc)
    /\ vpc = "done" /\ vimpl \in Conv1 =>
          /\ DOMAIN vout = DOMAIN vin
          /\ \A i \in DOMAIN vin : vout[i] = Dot1(i, DOMAIN vker)
          /\ VLen(vker) = 0 => \A i \in DOMAIN vin : vout[i] = 0
    /\ vpc = "done" /\ vimpl \in Conv2 =>
          /\ DOMAIN vout = DOMAIN vin
          /\ \A r \in DOMAIN vin :
                /\ DOMAIN vout[r] = DOMAIN vin[r]
                /\ \A c \in DOMAIN vin[r] :
                      vout[r][c] = Dot2(r, c, (DOMAIN vker) \X (DOMAIN vker))
                /\ VLen(vker) = 0 => \A c \in DOMAIN vin[r] : vout[r][c] = 0

\* an even kernel of two taps over three samples: the last output element read
\* the last cell of the padded buffer, index data_len + K - 2
C24_Witness ==
    /\ vpc = "done" /\ vimpl \in Conv1
    /\ VLen(vin) = 3 /\ VLen(vker) = 2
    /\ VLen(padded) = 5
    /\ vker[0] = 1 /\ vin[1] = 1 /\ vout[2] = vin[1] * vker[0] + vin[2] * vker[1]
    /\ vout[2] > 0

\* a 2 by 2 kernel over a 2 by 2 image and an empty kernel over an image
C24_Witness2D ==
    /\ vpc = "done" /\ vimpl \in Conv2
    /\ VLen(vin) = 2 /\ VCols = 2 /\ VLen(vker) = 2
    /\ VLen(padded) = 4
    /\ vout[1][1] = 2

C24_WitnessEmptyKernel ==
    /\ vpc = "done" /\ VLen(vker) = 0 /\ VLen(vin) = 2
    /\ vimpl \in {"convolution_1d_cy", "convolution_2d_cy"}

(***************************************************************************)
(* The tokenizers of regex_swig.cpp and regex_cy.pyx.  A character is its  *)
(* ASCII code and a string a sequence of codes; substr(pos, n) of a string *)
(* indexed from 0 is SubSeq(s, pos + 1, pos + n).                          *)
(***************************************************************************)
\* 'a', '1', the apostrophe; space, '\n'; '.', '!'; form feed and DEL, which are
\* ASCII characters of none of the three classes
Alphabet == {97, 49, 39, 32, 10, 46, 33, 12, 127}

Texts == UNION {[1..n -> Alphabet] : n \in 0..MaxText}

is_alnum(c) == (c >= 48 /\ c <= 57) \/ (c >= 65 /\ c <= 90) \/ (c >= 97 /\ c <= 122)

is_whitespace(c) == c = 32 \/ c = 9 \/ c = 10 \/ c = 13

is_punctuation(c) ==
    \/ (c >= 33 /\ c <= 47)
    \/ (c >= 58 /\ c <= 64)
    \/ (c >= 91 /\ c <= 96)
    \/ (c >= 123 /\ c <= 126)

\* text.substr(pos, n)
substr(s, pos, n) == SubSeq(s, pos + 1, pos + n)

InitCharTok ==
    /\ text \in Texts
    /\ tpc = "idle" /\ tci = 0 /\ tstart = 0
    /\ in_word = FALSE /\ in_punct = FALSE /\ in_space = FALSE
    /\ tokens = <<>> /\ flags = {}
    /\ MIdle
    /\ FIdle
    /\ NIdle
    /\ GIdle
    /\ AIdle
    /\ BIdle
    /\ QIdle
    /\ SIdle
    /\ KIdle
    /\ EIdle
    /\ VIdle
    /\ WIdle

\* if (length == 0) return tokens;
CtEmpty ==
    /\ tpc = "idle" /\ Len(text) = 0
    /\ tokens' = <<>>
    /\ tpc' = "done"
    /\ UNCHANGED <<text, tci, tstart, in_word, in_punct, in_space, flags>>
    /\ UNCHANGED nonT

\* start = 0, the three flags false
CtStart ==
    /\ tpc = "idle" /\ Len(text) # 0
    /\ tstart' = 0 /\ tci' = 0
    /\ in_word' = FALSE /\ in_punct' = FALSE /\ in_space' = FALSE
    /\ flags' = {<<FALSE, FALSE, FALSE>>}
    /\ tpc' = "loop"
    /\ UNCHANGED <<text, tokens>>
    /\ UNCHANGED nonT

\* the token under way ends before character i and a token of another class
\* starts there
Flush(others, word, punct, space) ==
    /\ tokens' = IF others THEN Append(tokens, substr(text, tstart, tci - tstart))
                 ELSE tokens
    /\ tstart' = tci
    /\ in_word' = word /\ in_punct' = punct /\ in_space' = space

\* one pass of the loop over the characters
CtChar ==
    /\ tpc = "loop" /\ tci < Len(text)
    /\ LET c == text[tci + 1]
       IN  IF is_alnum(c) \/ c = 39
           THEN IF ~in_word THEN Flush(in_punct \/ in_space, TRUE, FALSE, FALSE)
                ELSE UNCHANGED <<tokens, tstart, in_word, in_punct, in_space>>
           ELSE IF is_whitespace(c)
           THEN IF ~in_space THEN Flush(in_word \/ in_punct, FALSE, FALSE, TRUE)
                ELSE UNCHANGED <<tokens, tstart, in_word, in_punct, in_space>>
           ELSE IF is_punctuation(c)
           THEN IF ~in_punct THEN Flush(in_word \/ in_space, FALSE, TRUE, FALSE)
                ELSE UNCHANGED <<tokens, tstart, in_word, in_punct, in_space>>
           ELSE UNCHANGED <<tokens, tstart, in_word, in_punct, in_space>>
    /\ tci' = tci + 1
    /\ flags' = flags \cup {<<in_word', in_punct', in_space'>>}
    /\ UNCHANGED <<text, tpc>>
    /\ UNCHANGED nonT

\* the flush of the last token and the return
CtReturn ==
    /\ tpc = "loop" /\ tci >= Len(text)
    /\ tokens' = IF in_word \/ in_punct \/ in_space
                 THEN Append(tokens, substr(text, tstart, Len(text) - tstart))
                 ELSE tokens
    /\ tpc' = "done"
    /\ UNCHANGED <<text, tci, tstart, in_word, in_punct, in_space, flags>>
    /\ UNCHANGED nonT

NextCharTok ==
    \/ CtEmpty
    \/ CtStart
    \/ CtChar
    \/ CtReturn

SpecCharTok == InitCharTok /\ [][NextCharTok]_vars

IsWordChar(c) == is_alnum(c) \/ c = 39

\* the class of a character: word, space, punct, or none of them
ClassOf(c) ==
    IF IsWordChar(c) THEN "word"
    ELSE IF is_whitespace(c) THEN "space"
    ELSE IF is_punctuation(c) THEN "punct"
    ELSE "none"

RECURSIVE Concat(_)
Concat(toks) == IF toks = <<>> THEN <<>> ELSE Head(toks) \o Concat(Tail(toks))

\* the token is not empty and all its characters are of one of the three classes
OneClass(tok) ==
    /\ tok # <<>>
    /\ ClassOf(tok[1]) # "none"
    /\ \A n \in DOMAIN tok : ClassOf(tok[n]) = ClassOf(tok[1])

\* C25: at most one of in_word, in_punct, in_space is true at any step; the
\* returned tokens are non-empty, their concatenation is the input, each is of
\* one class (word, whitespace, punctuation), and no two neighbours are of the
\* same class; the empty text yields no token.
C25_CharTokenize ==
    /\ \A f \in flags \cup {<<in_word, in_punct, in_space>>} :
          Cardinality({n \in 1..3 : f[n]}) <= 1
    /\ tpc = "done" =>
          /\ Concat(tokens) = text
          /\ \A n \in DOMAIN tokens : OneClass(tokens[n])
          /\ \A n \in DOMAIN tokens :
                n > 1 => ClassOf(tokens[n][1]) # ClassOf(tokens[n - 1][1])
          /\ text = <<>> => tokens = <<>>

(***************************************************************************)
(* simple_tokenize, fast_word_tokenize (regex_swig.cpp) and                *)
(* simple_tokenize_cy, fast_word_tokenize_cy (regex_cy.pyx), each called   *)
(* once on the same ASCII text.  For ASCII the bytes of text.encode() are  *)
(* the characters of text, so text_ptr[i] is text[i] and the slice         *)
(* text[a:b] is substr(a, b - a).                                          *)
(***************************************************************************)
WordTokenizers == {"simple_tokenize", "simple_tokenize_cy",
                   "fast_word_tokenize", "fast_word_tokenize_cy"}

NoTokens == "not called"

\* the condition under which a run continues: is_alnum(c) || c == '\'' in
\* simple_tokenize, is_alnum(c) in fast_word_tokenize
InWord(f, c) ==
    IF f \in {"simple_tokenize", "simple_tokenize_cy"} THEN is_alnum(c) \/ c = 39
    ELSE is_alnum(c)

\* what the else branch appends for character i (from 0), after the word before
\* it, if any, has been appended
Separator(f, s, i) ==
    LET c == s[i + 1]
    IN  IF f = "simple_tokenize"
        THEN IF is_whitespace(c) THEN <<>>
             ELSE IF is_punctuation(c) THEN <<substr(s, i, 1)>>
             ELSE <<>>
        ELSE IF f = "simple_tokenize_cy"
        THEN IF is_whitespace(c)
             THEN IF i > 0 /\ ~is_whitespace(s[i]) THEN <<substr(s, i, 1)>> ELSE <<>>
             ELSE IF is_punctuation(c) THEN <<substr(s, i, 1)>>
             ELSE <<>>
        ELSE <<>>

\* the loop from character i on and the handling of the last word
RECURSIVE TokenLoop(_, _, _, _, _, _)
TokenLoop(f, s, i, start, inw, toks) ==
    IF i >= Len(s)
    THEN IF inw THEN Append(toks, substr(s, start, Len(s) - start)) ELSE toks
    ELSE IF InWord(f, s[i + 1])
    THEN IF ~inw THEN TokenLoop(f, s, i + 1, i, TRUE, toks)
         ELSE TokenLoop(f, s, i + 1, start, inw, toks)
    ELSE TokenLoop(f, s, i + 1, start, FALSE,
                   (IF inw THEN Append(toks, substr(s, start, i - start)) ELSE toks)
                   \o Separator(f, s, i))

Tokenize(f, s) == TokenLoop(f, s, 0, 0, FALSE, <<>>)

InitWordTok ==
    /\ wtext \in Texts
    /\ wret = [f \in WordTokenizers |-> NoTokens]
    /\ MIdle
    /\ FIdle
    /\ NIdle
    /\ GIdle
    /\ AIdle
    /\ BIdle
    /\ QIdle
    /\ SIdle
    /\ KIdle
    /\ EIdle
    /\ VIdle
    /\ TIdle

\* the call of simple_tokenize on the text
SimpleTokenize ==
    /\ wret # <<>> /\ wret["simple_tokenize"] = NoTokens
    /\ wret' = [wret EXCEPT !["simple_tokenize"] = Tokenize("simple_tokenize", wtext)]
    /\ UNCHANGED wtext
    /\ UNCHANGED nonW

\* the call of simple_tokenize_cy on the text
SimpleTokenizeCy ==
    /\ wret # <<>> /\ wret["simple_tokenize_cy"] = NoTokens
    /\ wret' = [wret EXCEPT !["simple_tokenize_cy"] = Tokenize("simple_tokenize_cy", wtext)]
    /\ UNCHANGED wtext
    /\ UNCHANGED nonW

\* the call of fast_word_tokenize on the text
FastWordTokenize ==
    /\ wret # <<>> /\ wret["fast_word_tokenize"] = NoTokens
    /\ wret' = [wret EXCEPT !["fast_word_tokenize"] = Tokenize("fast_word_tokenize", wtext)]
    /\ UNCHANGED wtext
    /\ UNCHANGED nonW

\* the call of fast_word_tokenize_cy on the text
FastWordTokenizeCy ==
    /\ wret # <<>> /\ wret["fast_word_tokenize_cy"] = NoTokens
    /\ wret' = [wret EXCEPT !["fast_word_tokenize_cy"] = Tokenize("fast_word_tokenize_cy", wtext)]
    /\ UNCHANGED wtext
    /\ UNCHANGED nonW

NextWordTok ==
    \/ SimpleTokenize
    \/ SimpleTokenizeCy
    \/ FastWordTokenize
    \/ FastWordTokenizeCy

SpecWordTok == InitWordTok /\ [][NextWordTok]_vars

IsAlnumSpec(c) == c \in (48..57) \cup (65..90) \cup (97..122)
IsWordSpec(c) == IsAlnumSpec(c) \/ c = 39
IsPunctSpec(c) == c \in ((33..47) \cup (58..64) \cup (91..96) \cup (123..126)) \ {39}

\* the characters that make a run: of simple_tokenize, of fast_word_tokenize
InRun(kind, c) == IF kind = "simple" THEN IsWordSpec(c) ELSE IsAlnumSpec(c)

\* position n (from 1) starts a maximal run
RunStart(kind, n) ==
    InRun(kind, wtext[n]) /\ (n = 1 \/ ~InRun(kind, wtext[n - 1]))

\* the last position of the run that starts at n
RunLast(kind, n) ==
    CHOOSE m \in n..Len(wtext) :
        /\ \A q \in n..m : InRun(kind, wtext[q])
        /\ (m = Len(wtext) \/ ~InRun(kind, wtext[m + 1]))

\* the token that starts at n: the run, or the punctuation character alone
TokenAt(kind, n) ==
    IF InRun(kind, wtext[n]) THEN SubSeq(wtext, n, RunLast(kind, n))
    ELSE <<wtext[n]>>

\* the tokens that start at one of the positions S, in the order of the text
RECURSIVE InOrder(_, _)
InOrder(kind, S) ==
    IF S = {} THEN <<>>
    ELSE LET n == CHOOSE e \in S : \A o \in S : e <= o
         IN  <<TokenAt(kind, n)>> \o InOrder(kind, S \ {n})

\* every maximal run of alphanumerics and apostrophes, every punctuation character
SimpleExpected ==
    InOrder("simple", {n \in DOMAIN wtext :
                          RunStart("simple", n) \/ IsPunctSpec(wtext[n])})

\* every maximal run of alphanumerics
FastExpected == InOrder("fast", {n \in DOMAIN wtext : RunStart("fast", n)})

Answered(f) == wret # <<>> /\ wret[f] # NoTokens

\* C26: on every ASCII text simple_tokenize and simple_tokenize_cy return the
\* same list, the maximal runs of alphanumerics and apostrophes and the single
\* punctuation characters in text order, without whitespace tokens;
\* fast_word_tokenize and fast_word_tokenize_cy return the same list, the maximal
\* runs of alphanumerics.
C26_TokenizersAgree ==
    /\ Answered("simple_tokenize") => wret["simple_tokenize"] = SimpleExpected
    /\ Answered("simple_tokenize_cy") => wret["simple_tokenize_cy"] = SimpleExpected
    /\ Answered("simple_tokenize") /\ Answered("simple_tokenize_cy") =>
          wret["simple_tokenize"] = wret["simple_tokenize_cy"]
    /\ Answered("fast_word_tokenize") => wret["fast_word_tokenize"] = FastExpected
    /\ Answered("fast_word_tokenize_cy") => wret["fast_word_tokenize_cy"] = FastExpected
    /\ Answered("fast_word_tokenize") /\ Answered("fast_word_tokenize_cy") =>
          wret["fast_word_tokenize"] = wret["fast_word_tokenize_cy"]

====
